---- MODULE Spec2Model ----
(***************************************************************************)
(* Model of the stress-test orchestration in stress_test.rs:               *)
(* test_cpu_multi_threading_stress (test = "cpu") and                      *)
(* test_comprehensive_system_stress (test = "comprehensive"): the main     *)
(* thread spawns looping workers that share an atomic stop flag and an     *)
(* atomic operation counter, samples system metrics on a timer, checks the *)
(* limits on every sample, then stores the stop flag, joins the workers    *)
(* and prints a report.                                                    *)
(*                                                                         *)
(* Units: times are whole seconds since start_time; memory is in KiB (all  *)
(* byte values of the source are multiples of 1024); cpu, battery level    *)
(* and temperature are whole numbers.  The floating point comparisons of   *)
(* check_limits are done in integers (x <= m * 1.5 as 10x <= 15m).         *)
(* An atomic load returns the latest stored value (one modification order  *)
(* per atomic, read at its end).                                           *)
(* A worker can panic where it first creates its thread-local random       *)
(* generator; failures of thread::spawn and of allocation are left out.    *)
(* PureSpec applies check_limits, the reporters and the removal of the     *)
(* scratch directory to chosen inputs.                                     *)
(*                                                                         *)
(* FsSpec is test_filesystem_stress (test = "filesystem"): four workers    *)
(* write, append to, read and create files in a scratch directory while    *)
(* the main thread checks the open files and the free disk space once a    *)
(* second, then stores the stop flag, joins and removes the directory.     *)
(* The directory is a flag and a map from file name to length in bytes;    *)
(* every std::fs call can return Err.  One loop iteration is one step.     *)
(***************************************************************************)
EXTENDS Integers, Sequences, FiniteSets, TLC

VARIABLES
    test,                  \* which #[test] function is running
    platform,              \* cfg!(target_os)
    config,                \* StressTestConfig
    workloads,             \* the workload descriptors, by kind
    pc,                    \* position of the main (test) thread
    tpc,                   \* position of every spawned thread
    thread_handles,        \* JoinHandles pushed by the spawn loop, in order
    join_idx,              \* handles already joined by the main thread
    sub_join_idx,          \* per lock-contention worker: sub-handles joined
    stop_signal,           \* Arc<AtomicBool>
    completed_operations,  \* Arc<AtomicU64>
    lock,                  \* per lock-contention worker: holder of its Mutex
    lock_data,             \* per lock-contention worker: the u64 in the Mutex
    now,                   \* start_time.elapsed(), in seconds
    monitor_count,
    metrics,               \* the metrics history
    progress,              \* the last "Progress:" line of the monitor
    report,                \* what the reporter printed, NoReport before
    after_stop,            \* per thread: fetch_adds done after the stop store
    saw_stop,              \* the threads whose load of the stop flag gave true
    current_metrics,       \* the sample the monitor loop is working on
    test_dir_exists,       \* the scratch directory test_dir is on disk
    files,                 \* the files in test_dir: name -> length in bytes
    cleanup_result,        \* the Result of fs::remove_dir_all, before .ok()
    allocations,           \* memory-pressure test: the retained buffers, by size
    allocated_sizes,       \* memory-pressure test: every size allocated
    memory_pressure_history, \* memory-pressure test: (before, after) in MB
    barrier,               \* threading test: threads waiting at the Barrier
    counter,               \* threading test: Arc<AtomicU64>
    loop_i,                \* threading test: per thread, the loop variable i
    app_dir,               \* e2e tests: files of the app directory, by name
    cache_dir,             \* e2e tests: files of the cache directory, by name
    operations,            \* e2e tests: result of perform_offline_operations
    synced,                \* e2e tests: results of sync_offline_data, in order
    user_data              \* e2e tests: result of load_or_create_user_data

vars == <<test, platform, config, workloads, pc, tpc, thread_handles,
          join_idx, sub_join_idx, stop_signal, completed_operations, lock,
          lock_data, now, monitor_count, metrics, progress, report,
          after_stop, saw_stop, current_metrics, test_dir_exists, files,
          cleanup_result, allocations, allocated_sizes,
          memory_pressure_history, barrier, counter, loop_i, app_dir,
          cache_dir, operations, synced, user_data>>

----------------------------------------------------------------------------
\* Bounds of the model.

\* longest test_duration, in seconds
MaxDuration == 5
\* largest max_threads
MaxThreads == 2
\* workers start no new iteration once the counter has reached this
MaxOps == 2
\* sub-threads of one lock-contention workload (the source spawns 5)
SubThreads == 2
\* samples whose readings are drawn freely; later samples repeat the
\* readings of the sample before them
VariedSamples == 1

----------------------------------------------------------------------------
\* Platform metric sources.

Platforms == {"android", "ios"}

NoReport == [kind |-> "none"]
NoSample == [kind |-> "none"]
NoProgress == [elapsed |-> 0, ops |-> 0, rate |-> 0]
NoHolder == <<>>
NoUserData == [kind |-> "none"]

\* StressTestConfig::default(); max_battery_drain_percent (0.5) is read by
\* none of the functions modelled here
DefaultConfig(p) ==
    [test_duration           |-> 60,
     max_cpu_usage           |-> IF p = "android" THEN 60 ELSE 50,
     max_memory_mb           |-> IF p = "android" THEN 200 ELSE 150,
     max_threads             |-> IF p = "android" THEN 50 ELSE 30,
     max_file_size_mb        |-> IF p = "android" THEN 100 ELSE 50,
     max_open_files          |-> IF p = "android" THEN 200 ELSE 100,
     max_temperature_celsius |-> 45,
     enable_throttling_protection |-> TRUE]

\* get_cpu_usage()
get_cpu_usage(p) == IF p = "android" THEN 50 ELSE 45

\* the fallback of get_memory_used(): 512 * 1024 * 1024 bytes, in KiB
MemoryFallbackKb == 512 * 1024

\* MemAvailable values (kB) that /proc/meminfo is taken to report
\* (200 MiB)
MemAvailableKb == {200 * 1024}

\* get_memory_used(): on android the MemAvailable line of /proc/meminfo
\* times 1024 when it is there, else the fallback; the set of values one
\* call can return
get_memory_used(p) ==
    IF p = "android" THEN MemAvailableKb \cup {MemoryFallbackKb}
    ELSE {MemoryFallbackKb}

\* get_memory_total(), in KiB
get_memory_total(p) ==
    IF p = "android" THEN 4 * 1024 * 1024 ELSE 3 * 1024 * 1024

\* simulate_battery_level(): 50.0 + gen_range(-5.0..5.0); the draws taken
BatteryDraws == {0}
simulate_battery_level == {50 + r : r \in BatteryDraws}

\* simulate_battery_temperature(): 35.0 + gen_range(0.0..10.0); the draws
\* taken
TemperatureDraws == {0, 9}
simulate_battery_temperature == {35 + r : r \in TemperatureDraws}

\* is_thermal_throttling(): draws a temperature of its own
is_thermal_throttling == {t > 40 : t \in simulate_battery_temperature}

\* get_system_uptime(): /proc/uptime on android, else zero
get_system_uptime(p, t) == IF p = "android" THEN t ELSE 0

\* a collect_system_metrics() that stamps every sample with start_time
collect_system_metrics_stamps_start(p, t) ==
    { [cpu_usage           |-> get_cpu_usage(p),
       memory_used         |-> m,
       memory_total        |-> get_memory_total(p),
       battery_level       |-> b,
       battery_temperature |-> c,
       thermal_throttling  |-> th,
       uptime              |-> get_system_uptime(p, t),
       timestamp           |-> 0] :
         m \in get_memory_used(p), b \in simulate_battery_level,
         c \in simulate_battery_temperature, th \in is_thermal_throttling }

\* collect_system_metrics(): the samples one call can return at time t
collect_system_metrics(p, t) ==
    { [cpu_usage           |-> get_cpu_usage(p),
       memory_used         |-> m,
       memory_total        |-> get_memory_total(p),
       battery_level       |-> b,
       battery_temperature |-> c,
       thermal_throttling  |-> th,
       uptime              |-> get_system_uptime(p, t),
       timestamp           |-> t] :
         m \in get_memory_used(p), b \in simulate_battery_level,
         c \in simulate_battery_temperature, th \in is_thermal_throttling }

\* a check_limits whose assertions use < where the source has <=
check_limits_strict(m, c) ==
    /\ 10 * m.cpu_usage < 15 * c.max_cpu_usage
    /\ 10 * m.memory_used < 15 * c.max_memory_mb * 1024
    /\ 10 * m.battery_temperature < 12 * c.max_temperature_celsius

\* check_limits(): TRUE when none of the three assert! fails
check_limits(m, c) ==
    /\ 10 * m.cpu_usage <= 15 * c.max_cpu_usage
    /\ 10 * m.memory_used <= 15 * c.max_memory_mb * 1024
    /\ 10 * m.battery_temperature <= 12 * c.max_temperature_celsius

----------------------------------------------------------------------------
\* Reporters.

RECURSIVE SumOf(_, _)
SumOf(s, f) == IF s = <<>> THEN 0 ELSE s[1][f] + SumOf(Tail(s), f)

RECURSIVE FoldMax(_, _, _)
FoldMax(s, f, acc) ==
    IF s = <<>> THEN acc
    ELSE FoldMax(Tail(s), f, IF s[1][f] > acc THEN s[1][f] ELSE acc)

RECURSIVE FoldMin(_, _, _)
FoldMin(s, f, acc) ==
    IF s = <<>> THEN acc
    ELSE FoldMin(Tail(s), f, IF s[1][f] < acc THEN s[1][f] ELSE acc)

\* what a reporter leaves behind when one of its expressions panics
ReporterPanic == [kind |-> "panic"]

\* the statistics of analyze_stress_results: on an empty history the u64
\* division by metrics.len() and metrics.last().unwrap() panic
analyze_statistics(ms, total_operations) ==
    IF Len(ms) = 0 THEN ReporterPanic
    ELSE [kind             |-> "results",
          avg_cpu          |-> SumOf(ms, "cpu_usage") \div Len(ms),
          avg_memory       |-> SumOf(ms, "memory_used") \div Len(ms),
          max_temp         |-> FoldMax(ms, "battery_temperature", 0),
          total_operations |-> total_operations,
          duration         |-> ms[Len(ms)].timestamp - ms[1].timestamp]

\* a reporter that goes on to the statistics whatever the history holds
analyze_stress_results_without_is_empty(ms, total_operations) ==
    analyze_statistics(ms, total_operations)

\* analyze_stress_results(metrics, total_operations)
analyze_stress_results(ms, total_operations) ==
    IF ms = <<>> THEN [kind |-> "empty", total_operations |-> total_operations]
    ELSE analyze_statistics(ms, total_operations)

\* a report whose battery minimum is folded from 0.0
comprehensive_statistics_min_from_zero(ms) ==
    IF Len(ms) = 0 THEN ReporterPanic
    ELSE [kind        |-> "comprehensive",
          duration    |-> ms[Len(ms)].timestamp - ms[1].timestamp,
          avg_cpu     |-> SumOf(ms, "cpu_usage") \div Len(ms),
          peak_cpu    |-> FoldMax(ms, "cpu_usage", 0),
          avg_memory_mb  |-> (SumOf(ms, "memory_used") \div Len(ms)) \div 1024,
          peak_memory_mb |-> FoldMax(ms, "memory_used", 0) \div 1024,
          avg_temp    |-> SumOf(ms, "battery_temperature") \div Len(ms),
          min_battery |-> FoldMin(ms, "battery_level", 0),
          throttling_events |->
              Cardinality({i \in 1..Len(ms) : ms[i].thermal_throttling}),
          uptime      |-> ms[Len(ms)].uptime,
          status      |->
              IF \A i \in 1..Len(ms) :
                     ~ms[i].thermal_throttling
                     \/ ms[i].battery_temperature < 45
              THEN "PASSED" ELSE "FAILED"]

\* the body of generate_comprehensive_report after the is_empty test: on
\* an empty history metrics.last().unwrap() and the u64 division panic
comprehensive_statistics(ms) ==
    IF Len(ms) = 0 THEN ReporterPanic
    ELSE [kind        |-> "comprehensive",
          duration    |-> ms[Len(ms)].timestamp - ms[1].timestamp,
          avg_cpu     |-> SumOf(ms, "cpu_usage") \div Len(ms),
          peak_cpu    |-> FoldMax(ms, "cpu_usage", 0),
          avg_memory_mb  |-> (SumOf(ms, "memory_used") \div Len(ms)) \div 1024,
          peak_memory_mb |-> FoldMax(ms, "memory_used", 0) \div 1024,
          avg_temp    |-> SumOf(ms, "battery_temperature") \div Len(ms),
          min_battery |-> FoldMin(ms, "battery_level", 100),
          throttling_events |->
              Cardinality({i \in 1..Len(ms) : ms[i].thermal_throttling}),
          uptime      |-> ms[Len(ms)].uptime,
          status      |->
              IF \A i \in 1..Len(ms) :
                     ~ms[i].thermal_throttling
                     \/ ms[i].battery_temperature < 45
              THEN "PASSED" ELSE "FAILED"]

\* generate_comprehensive_report(metrics)
generate_comprehensive_report(ms) ==
    IF ms = <<>> THEN [kind |-> "empty"]
    ELSE comprehensive_statistics(ms)

----------------------------------------------------------------------------
\* Workloads and threads.

\* the five closures of test_cpu_multi_threading_stress, in order
CpuWorkloads ==
    <<"cpu_math", "memory_churn", "lock_contention", "sqrt_sum", "busy_yield">>

\* the five threads of test_comprehensive_system_stress, in order
ComprehensiveWorkloads ==
    <<"heavy_computation", "alloc", "filesystem", "network", "render">>

\* the four threads of test_filesystem_stress, in order
FsWorkloads == <<"churn", "append", "reader", "random_access">>

\* the descriptor lists and max_threads values the cpu test is run with
RunShapes ==
    {<<CpuWorkloads, n>> : n \in 0..MaxThreads}
    \cup {<<<<"cpu_math">>, n>> : n \in 0..MaxThreads}
    \cup {<<<<"memory_churn", "busy_yield">>, n>> : n \in 0..MaxThreads}
    \cup {<<<<"lock_contention">>, 1>>}

\* workloads whose loop does counter.fetch_add(1)
Counting == {"cpu_math", "memory_churn", "sqrt_sum", "busy_yield", "sub"}

\* workloads that call rand::thread_rng() before their loop
RngBeforeLoop == {"cpu_math", "churn", "append", "reader", "random_access"}

\* workloads whose loop body calls rand::thread_rng() or rand::random()
RngInLoop == {"memory_churn", "filesystem"}

\* where a spawned worker of the kind k starts; the filesystem worker of
\* the comprehensive test first creates its directory
FirstPosition(k) ==
    IF k = "lock_contention" THEN "begin"
    ELSE IF k = "filesystem" THEN "mkdir"
    ELSE IF k \in RngBeforeLoop THEN "rng"
    ELSE IF k \in RngInLoop THEN "check0"
    ELSE "check"

\* threads started per descriptor by the spawn loop
ThreadsPerWorkload ==
    IF test = "cpu" THEN config.max_threads \div Len(workloads) ELSE 1

TotalThreads == Len(workloads) * ThreadsPerWorkload

\* the progress line is printed when monitor_count % 5 == 0
ProgressEvery == 5

\* Duration::from_secs(1) and Duration::from_secs(5)
monitor_interval == IF test = "cpu" THEN 1 ELSE 5

Spawned == DOMAIN tpc
SubsOf(w) == {t \in Spawned : Len(t) = 3 /\ <<t[1], t[2]>> = w}
Kind(t) == IF Len(t) = 3 THEN "sub" ELSE workloads[t[1]]

\* a fetch_sub where the source has fetch_add
fetch_add_as_fetch_sub(c, n) == c - n

\* AtomicU64::fetch_add
fetch_add(c, n) == c + n

----------------------------------------------------------------------------
TypeOK ==
    /\ test \in {"cpu", "comprehensive", "filesystem"}
    /\ platform \in Platforms
    /\ pc \in {"mkdir", "spawn", "monitor", "check", "progress", "stop",
               "join", "report", "cleanup", "done", "panicked"}
    /\ test_dir_exists \in BOOLEAN
    /\ ~test_dir_exists => files = <<>>
    /\ cleanup_result \in {"none", "Ok", "Err"}
    /\ stop_signal \in BOOLEAN
    /\ completed_operations \in Nat
    /\ now \in Nat
    /\ monitor_count \in Nat
    /\ join_idx \in 0..Len(thread_handles)

\* the thresholds a run is configured with: the defaults and, on android,
\* a cpu limit of half the cpu reading, on ios a memory limit above the
\* memory reading and one between the reading and two thirds of it
Thresholds(p) ==
    { [max_cpu_usage |-> DefaultConfig(p).max_cpu_usage,
       max_memory_mb |-> DefaultConfig(p).max_memory_mb] }
    \cup
    IF p = "android"
      THEN { [max_cpu_usage |-> 25,
              max_memory_mb |-> DefaultConfig(p).max_memory_mb] }
      ELSE { [max_cpu_usage |-> DefaultConfig(p).max_cpu_usage,
              max_memory_mb |-> mb] : mb \in {400, 600} }

\* the values of test_duration: no monitor turn, one turn, and the longest
Durations == {0, 1, MaxDuration}

Configs(p, n) ==
    { [DefaultConfig(p) EXCEPT !.test_duration = d, !.max_threads = n,
                               !.max_cpu_usage = th.max_cpu_usage,
                               !.max_memory_mb = th.max_memory_mb] :
        d \in Durations, th \in Thresholds(p) }

\* the state of the tests that are not running
OtherTestsIdle ==
    /\ allocations = <<>>
    /\ allocated_sizes = <<>>
    /\ memory_pressure_history = <<>>
    /\ barrier = 0
    /\ counter = 0
    /\ loop_i = <<>>
    /\ app_dir = <<>>
    /\ cache_dir = <<>>
    /\ operations = 0
    /\ synced = <<>>
    /\ user_data = NoUserData

Init ==
    /\ test \in {"cpu", "comprehensive"}
    /\ platform \in Platforms
    /\ \E shape \in IF test = "cpu" THEN RunShapes
                     ELSE {<<ComprehensiveWorkloads,
                             DefaultConfig(platform).max_threads>>} :
          /\ workloads = shape[1]
          /\ config \in Configs(platform, shape[2])
    /\ pc = "spawn"
    /\ tpc = <<>>
    /\ thread_handles = <<>>
    /\ join_idx = 0
    /\ sub_join_idx = <<>>
    /\ stop_signal = FALSE
    /\ completed_operations = 0
    /\ lock = <<>>
    /\ lock_data = <<>>
    /\ now = 0
    /\ monitor_count = 0
    /\ metrics = <<>>
    /\ progress = NoProgress
    /\ report = NoReport
    /\ after_stop = <<>>
    /\ saw_stop = {}
    /\ current_metrics = NoSample
    /\ test_dir_exists = FALSE
    /\ files = <<>>
    /\ cleanup_result = "none"
    /\ OtherTestsIdle

----------------------------------------------------------------------------
\* The main (test) thread.

mainVars == <<pc, thread_handles, join_idx, stop_signal, now, monitor_count,
              metrics, current_metrics, progress, report, cleanup_result>>
fsVars == <<test_dir_exists, files>>
memVars == <<allocations, allocated_sizes, memory_pressure_history>>
regVars == <<barrier, counter, loop_i>>
e2eVars == <<app_dir, cache_dir, operations, synced, user_data>>
\* what no thread of the stress tests with workers writes: the build, the
\* configuration, and the state of the other tests
envVars == <<test, platform, config, workloads, memVars, regVars, e2eVars>>
lockVars == <<lock, lock_data, sub_join_idx>>

\* the Result of a std::fs call
FsOutcomes == {"Ok", "Err"}

\* the files f without the file n
Without(f, n) == [x \in DOMAIN f \ {n} |-> f[x]]

\* the files f with the file n of length len
With(f, n, len) == [x \in DOMAIN f \cup {n} |-> IF x = n THEN len ELSE f[x]]

\* what follows the join loop: the reporter, or in the filesystem test the
\* removal of the scratch directory
AfterJoin == IF test = "filesystem" THEN "cleanup" ELSE "report"

\* thread::spawn of the spawn loop: one worker per step, descriptor by
\* descriptor
SpawnWorker ==
    /\ pc = "spawn"
    /\ Len(thread_handles) < TotalThreads
    /\ LET h  == Len(thread_handles)
           id == <<(h \div ThreadsPerWorkload) + 1,
                   (h % ThreadsPerWorkload) + 1>>
       IN  /\ tpc' = tpc @@ (id :> FirstPosition(workloads[id[1]]))
           /\ thread_handles' = Append(thread_handles, id)
           /\ after_stop' = after_stop @@ (id :> 0)
    /\ UNCHANGED <<envVars, fsVars, lockVars, pc, join_idx, stop_signal,
                   completed_operations, now, monitor_count, metrics,
                   progress, report, saw_stop, current_metrics,
                   cleanup_result>>

\* the spawn loop is over
SpawnDone ==
    /\ pc = "spawn"
    /\ Len(thread_handles) = TotalThreads
    /\ pc' = "monitor"
    /\ UNCHANGED <<envVars, fsVars, lockVars, tpc, thread_handles, join_idx,
                   stop_signal, completed_operations, now, monitor_count,
                   metrics, progress, report, after_stop, saw_stop,
                   current_metrics, cleanup_result>>

\* the readings of two samples agree
SameReadings(a, b) ==
    /\ a.memory_used = b.memory_used
    /\ a.battery_level = b.battery_level
    /\ a.battery_temperature = b.battery_temperature
    /\ a.thermal_throttling = b.thermal_throttling

\* a monitor turn that keeps only the newest sample in the history
MonitorSample_keeps_newest ==
    /\ pc = "monitor"
    /\ now < config.test_duration
    /\ now' = now + monitor_interval
    /\ monitor_count' = monitor_count + 1
    /\ \E m \in collect_system_metrics(platform, now') :
          /\ Len(metrics) >= VariedSamples
                => SameReadings(m, metrics[Len(metrics)])
          /\ metrics' = <<m>>
          /\ current_metrics' = m
    /\ pc' = "check"
    /\ UNCHANGED <<envVars, fsVars, lockVars, tpc, thread_handles, join_idx,
                   stop_signal, completed_operations, progress, report,
                   after_stop, saw_stop, cleanup_result>>

\* a monitor turn that hands the sample to the check before pushing it
MonitorSample_checks_before_push ==
    /\ pc = "monitor"
    /\ now < config.test_duration
    /\ now' = now + monitor_interval
    /\ monitor_count' = monitor_count + 1
    /\ \E m \in collect_system_metrics(platform, now') :
          /\ Len(metrics) >= VariedSamples
                => SameReadings(m, metrics[Len(metrics)])
          /\ current_metrics' = m
    /\ pc' = "check"
    /\ UNCHANGED <<envVars, fsVars, lockVars, tpc, thread_handles, join_idx,
                   stop_signal, completed_operations, metrics, progress,
                   report, after_stop, saw_stop, cleanup_result>>

\* one turn of the monitor loop up to the push: sleep, count, collect, push
MonitorSample ==
    /\ pc = "monitor"
    /\ now < config.test_duration
    /\ now' = now + monitor_interval
    /\ monitor_count' = monitor_count + 1
    /\ \E m \in collect_system_metrics(platform, now') :
          /\ Len(metrics) >= VariedSamples
                => SameReadings(m, metrics[Len(metrics)])
          /\ metrics' = Append(metrics, m)
          /\ current_metrics' = m
    /\ pc' = "check"
    /\ UNCHANGED <<envVars, fsVars, lockVars, tpc, thread_handles, join_idx,
                   stop_signal, completed_operations, progress, report,
                   after_stop, saw_stop, cleanup_result>>

\* the monitor loop ends: start_time.elapsed() >= test_duration
MonitorExit ==
    /\ pc = "monitor"
    /\ ~(now < config.test_duration)
    /\ pc' = "stop"
    /\ UNCHANGED <<envVars, fsVars, lockVars, tpc, thread_handles, join_idx,
                   stop_signal, completed_operations, now, monitor_count,
                   metrics, progress, report, after_stop, saw_stop,
                   current_metrics, cleanup_result>>

\* a limit check followed by the progress line on every monitor turn
CheckLimits_progress_every_turn ==
    /\ pc = "check"
    /\ pc' = IF ~check_limits(current_metrics, config)
                THEN "panicked"
             ELSE IF test = "cpu"
                THEN "progress"
             ELSE "monitor"
    /\ UNCHANGED <<envVars, fsVars, lockVars, tpc, thread_handles, join_idx,
                   stop_signal, completed_operations, now, monitor_count,
                   metrics, progress, report, after_stop, saw_stop,
                   current_metrics, cleanup_result>>

\* check_limits on the sample just collected; a failed assert! unwinds the
\* test thread, which drops the handles without joining
CheckLimits ==
    /\ pc = "check"
    /\ pc' = IF ~check_limits(current_metrics, config)
                THEN "panicked"
             ELSE IF test = "cpu" /\ monitor_count % ProgressEvery = 0
                THEN "progress"
             ELSE "monitor"
    /\ UNCHANGED <<envVars, fsVars, lockVars, tpc, thread_handles, join_idx,
                   stop_signal, completed_operations, now, monitor_count,
                   metrics, progress, report, after_stop, saw_stop,
                   current_metrics, cleanup_result>>

\* the progress line: ops / elapsed panics when elapsed is zero
Progress ==
    /\ pc = "progress"
    /\ IF now = 0
          THEN pc' = "panicked" /\ UNCHANGED progress
          ELSE /\ pc' = "monitor"
               /\ progress' = [elapsed |-> now,
                               ops     |-> completed_operations,
                               rate    |-> completed_operations \div now]
    /\ UNCHANGED <<envVars, fsVars, lockVars, tpc, thread_handles, join_idx,
                   stop_signal, completed_operations, now, monitor_count,
                   metrics, report, after_stop, saw_stop, current_metrics,
                   cleanup_result>>

\* a stop store that goes on to the report without the join loop
StopStore_skips_join ==
    /\ pc = "stop"
    /\ stop_signal' = TRUE
    /\ pc' = AfterJoin
    /\ UNCHANGED <<envVars, fsVars, lockVars, tpc, thread_handles, join_idx,
                   completed_operations, now, monitor_count, metrics,
                   progress, report, after_stop, saw_stop, current_metrics,
                   cleanup_result>>

\* stop_signal.store(true, Ordering::Relaxed)
StopStore ==
    /\ pc = "stop"
    /\ stop_signal' = TRUE
    /\ pc' = IF thread_handles = <<>> THEN AfterJoin ELSE "join"
    /\ UNCHANGED <<envVars, fsVars, lockVars, tpc, thread_handles, join_idx,
                   completed_operations, now, monitor_count, metrics,
                   progress, report, after_stop, saw_stop, current_metrics,
                   cleanup_result>>

\* a join loop that drops the handles without waiting for the threads
JoinWorker_without_waiting ==
    /\ pc = "join"
    /\ join_idx' = join_idx + 1
    /\ pc' = IF join_idx + 1 = Len(thread_handles) THEN AfterJoin ELSE "join"
    /\ UNCHANGED <<envVars, fsVars, lockVars, tpc, thread_handles,
                   stop_signal, completed_operations, now, monitor_count,
                   metrics, progress, report, after_stop, saw_stop,
                   current_metrics, cleanup_result>>

\* a join loop that unwraps the result: handle.join().unwrap() panics the
\* test thread on the Err of a panicked worker
JoinWorker_unwrap ==
    /\ pc = "join"
    /\ tpc[thread_handles[join_idx + 1]] \in {"done", "panicked"}
    /\ IF tpc[thread_handles[join_idx + 1]] = "panicked"
          THEN pc' = "panicked" /\ UNCHANGED join_idx
          ELSE /\ join_idx' = join_idx + 1
               /\ pc' = IF join_idx + 1 = Len(thread_handles)
                           THEN AfterJoin ELSE "join"
    /\ UNCHANGED <<envVars, fsVars, lockVars, tpc, thread_handles,
                   stop_signal, completed_operations, now, monitor_count,
                   metrics, progress, report, after_stop, saw_stop,
                   current_metrics, cleanup_result>>

\* let _ = handle.join() of the join loop: returns once that thread has
\* ended, by return (Ok) or by panic (Err); the result is dropped
JoinWorker ==
    /\ pc = "join"
    /\ tpc[thread_handles[join_idx + 1]] \in {"done", "panicked"}
    /\ join_idx' = join_idx + 1
    /\ pc' = IF join_idx + 1 = Len(thread_handles) THEN AfterJoin ELSE "join"
    /\ UNCHANGED <<envVars, fsVars, lockVars, tpc, thread_handles,
                   stop_signal, completed_operations, now, monitor_count,
                   metrics, progress, report, after_stop, saw_stop,
                   current_metrics, cleanup_result>>

\* analyze_stress_results(metrics, completed_operations.load()) or
\* generate_comprehensive_report(&metrics_history)
Report ==
    /\ pc = "report"
    /\ report' = IF test = "cpu"
                    THEN analyze_stress_results(metrics, completed_operations)
                    ELSE generate_comprehensive_report(metrics)
    /\ pc' = IF report' = ReporterPanic THEN "panicked" ELSE "done"
    /\ UNCHANGED <<envVars, fsVars, lockVars, tpc, thread_handles, join_idx,
                   stop_signal, completed_operations, now, monitor_count,
                   metrics, progress, after_stop, saw_stop, current_metrics,
                   cleanup_result>>

\* fs::create_dir_all(&test_dir).expect("Failed to create test dir") of
\* the filesystem test: Ok when the directory is there already
MakeTestDir ==
    /\ pc = "mkdir"
    /\ \E r \in FsOutcomes :
          IF test_dir_exists \/ r = "Ok"
            THEN test_dir_exists' = TRUE /\ pc' = "spawn"
            ELSE test_dir_exists' = FALSE /\ pc' = "panicked"
    /\ UNCHANGED <<envVars, lockVars, files, tpc, thread_handles, join_idx,
                   stop_signal, completed_operations, now, monitor_count,
                   metrics, progress, report, after_stop, saw_stop,
                   current_metrics, cleanup_result>>

\* count_open_files(): the entries of /proc/self/fd on android, zero when
\* it cannot be read and on ios; the readings taken
count_open_files(p) == IF p = "android" THEN {0, 20, 200} ELSE {0}

\* free_disk_space_mb(&test_dir): the free space statvfs reports, in MB,
\* 1000 when statvfs fails; the readings taken
free_disk_space_mb == {50, 51, 1000}

\* one turn of the monitor loop of the filesystem test: sleep, then the
\* two assert! on the open files and on the free space
FsMonitor ==
    /\ pc = "monitor"
    /\ now < config.test_duration
    /\ now' = now + 1
    /\ \E open_files \in count_open_files(platform),
          free_space \in free_disk_space_mb :
          pc' = IF open_files < config.max_open_files /\ free_space > 50
                  THEN "monitor" ELSE "panicked"
    /\ UNCHANGED <<envVars, fsVars, lockVars, tpc, thread_handles, join_idx,
                   stop_signal, completed_operations, monitor_count,
                   metrics, progress, report, after_stop, saw_stop,
                   current_metrics, cleanup_result>>

\* a cleanup that unwraps the Result of fs::remove_dir_all
Cleanup_unwrap ==
    /\ pc = "cleanup"
    /\ \E r \in FsOutcomes :
          LET res == IF test_dir_exists THEN r ELSE "Err"
          IN  /\ cleanup_result' = res
              /\ pc' = IF res = "Ok" THEN "done" ELSE "panicked"
              /\ IF res = "Ok"
                    THEN test_dir_exists' = FALSE /\ files' = <<>>
                    ELSE UNCHANGED <<test_dir_exists, files>>
    /\ UNCHANGED <<envVars, lockVars, tpc, thread_handles, join_idx,
                   stop_signal, completed_operations, now, monitor_count,
                   metrics, progress, report, after_stop, saw_stop,
                   current_metrics>>

\* fs::remove_dir_all(&test_dir).ok() after the join loop: Err when the
\* directory is not there, and the Err is dropped
Cleanup ==
    /\ pc = "cleanup"
    /\ \E r \in FsOutcomes :
          LET res == IF test_dir_exists THEN r ELSE "Err"
          IN  /\ cleanup_result' = res
              /\ IF res = "Ok"
                    THEN test_dir_exists' = FALSE /\ files' = <<>>
                    ELSE UNCHANGED <<test_dir_exists, files>>
    /\ pc' = "done"
    /\ UNCHANGED <<envVars, lockVars, tpc, thread_handles, join_idx,
                   stop_signal, completed_operations, now, monitor_count,
                   metrics, progress, report, after_stop, saw_stop,
                   current_metrics>>

----------------------------------------------------------------------------
\* The spawned threads.

\* the new position of thread t
Goto(t, l) == tpc' = [tpc EXCEPT ![t] = l]

\* where thread t goes when its loop test finds the flag false: into the
\* body, which on the first turn of an RngInLoop workload ("check0") is the
\* body that creates the thread-local generator ("body0")
AfterCheck(t) ==
    IF Kind(t) = "sub" THEN "lock"
    ELSE IF tpc[t] = "check0" THEN "body0"
    ELSE "body"

\* a loop test that looks at the flag only when the counter is even
LoopCheck_every_other_iteration(t) ==
    /\ tpc[t] \in {"check", "check0"}
    /\ IF stop_signal /\ completed_operations % 2 = 0
          THEN /\ Goto(t, "done")
               /\ saw_stop' = saw_stop \cup {t}
          ELSE /\ (~stop_signal /\ Kind(t) \in Counting)
                     => completed_operations < MaxOps
               /\ Goto(t, AfterCheck(t))
               /\ UNCHANGED saw_stop
    /\ UNCHANGED <<envVars, fsVars, mainVars, lockVars, completed_operations,
                   after_stop>>

\* a loop test that takes the flag with swap(false), clearing it for the
\* other threads
LoopCheck_swap_false(t) ==
    /\ tpc[t] \in {"check", "check0"}
    /\ IF stop_signal
          THEN /\ Goto(t, "done")
               /\ saw_stop' = saw_stop \cup {t}
               /\ stop_signal' = FALSE
          ELSE /\ Kind(t) \in Counting => completed_operations < MaxOps
               /\ Goto(t, AfterCheck(t))
               /\ UNCHANGED <<saw_stop, stop_signal>>
    /\ UNCHANGED <<envVars, fsVars, lockVars, pc, thread_handles, join_idx,
                   now, monitor_count, metrics, progress, report,
                   completed_operations, after_stop, current_metrics,
                   cleanup_result>>

\* while !stop.load(Ordering::Relaxed): the loop test of a worker or of a
\* lock-contention sub-thread
LoopCheck(t) ==
    /\ tpc[t] \in {"check", "check0"}
    /\ IF stop_signal
          THEN /\ Goto(t, "done")
               /\ saw_stop' = saw_stop \cup {t}
          ELSE /\ Kind(t) \in Counting => completed_operations < MaxOps
               /\ Goto(t, AfterCheck(t))
               /\ UNCHANGED saw_stop
    /\ UNCHANGED <<envVars, fsVars, mainVars, lockVars, completed_operations,
                   after_stop>>

\* let mut rng = rand::thread_rng() of the cpu-math workload: the
\* thread-local generator has been seeded from the operating system
RngInit(t) ==
    /\ tpc[t] = "rng"
    /\ Goto(t, "check")
    /\ UNCHANGED <<envVars, fsVars, mainVars, lockVars, completed_operations,
                   after_stop, saw_stop>>

\* the first rand::thread_rng() or rand::random() of a thread panics when
\* the generator cannot be seeded ("could not initialize thread_rng"): the
\* worker unwinds and its JoinHandle will give Err
WorkerPanic(t) ==
    /\ tpc[t] \in {"rng", "body0"}
    /\ Goto(t, "panicked")
    /\ UNCHANGED <<envVars, fsVars, mainVars, lockVars, completed_operations,
                   after_stop, saw_stop>>

\* the names format!("{}.tmp", rand::random::<u32>()) is taken to give, and
\* the length of the buffer written
TmpNames == {"1.tmp"}
TmpLength == 1024 * 1024

\* fs::create_dir_all(&test_dir).ok() of the comprehensive test's
\* filesystem worker: an Err is dropped
MakeDir(t) ==
    /\ tpc[t] = "mkdir"
    /\ Goto(t, "check0")
    /\ \E r \in FsOutcomes :
          test_dir_exists' = (test_dir_exists \/ r = "Ok")
    /\ UNCHANGED <<envVars, mainVars, lockVars, files, completed_operations,
                   after_stop, saw_stop>>

\* one iteration of the comprehensive test's filesystem worker: fs::write
\* (which can fail before or after it created the file), then
\* fs::remove_file if the path exists; every Err is dropped
TmpIteration ==
    \E n \in TmpNames, w \in FsOutcomes \cup {"ErrCreated"},
       r \in FsOutcomes :
        LET written == IF ~test_dir_exists \/ w = "Err" THEN files
                       ELSE With(files, n, IF w = "Ok" THEN TmpLength ELSE 0)
        IN  files' = IF n \in DOMAIN written /\ r = "Ok"
                        THEN Without(written, n)
                     ELSE written

\* the names format!("file_{}_{}.tmp", i, rng.gen::<u32>()) is taken to
\* give, and the length gen_range(1024..1024*1024) is taken to give
ChurnNames == {"file_0.tmp"}
ChurnLength == 1024

\* one iteration of the first worker of the filesystem test: a hundred
\* times fs::write or fs::remove_file on a fresh name, every Err dropped;
\* each name is left written or left absent
ChurnIteration ==
    \E kept \in SUBSET ChurnNames :
        files' = IF ~test_dir_exists THEN files
                 ELSE [x \in (DOMAIN files \ ChurnNames) \cup kept |->
                         IF x \in kept THEN ChurnLength ELSE files[x]]

\* the file of the second worker and the lengths gen_range(1024..64*1024)
\* is taken to give
AppendName == "write_stress.dat"
AppendSizes == {1024, 64 * 1024 - 1}

\* config.max_file_size_mb * 1024 * 1024
MaxFileSize == config.max_file_size_mb * 1024 * 1024

\* appends that succeed on one file before the device is full
MaxAppends == 1

\* the lengths write_stress.dat can have when a run starts: empty, or
\* left just under the limit by an earlier run
StartLengths == {0, MaxFileSize - 1024}

\* the lengths write_stress.dat can have after up to k appends
RECURSIVE AppendedLengths(_)
AppendedLengths(k) ==
    IF k = 0 THEN StartLengths
    ELSE LET S == AppendedLengths(k - 1)
         IN  S \cup {l + n : l \in S, n \in AppendSizes}

\* one iteration of the second worker of the filesystem test: open with
\* create and append, write_all, sync_all, then fs::metadata and, when
\* the length is above the limit, fs::remove_file; every Err is dropped
AppendIteration ==
    \E o \in FsOutcomes, w \in FsOutcomes, n \in AppendSizes,
       md \in FsOutcomes, r \in FsOutcomes :
        IF ~test_dir_exists \/ o = "Err" THEN files' = files
        ELSE LET old == IF AppendName \in DOMAIN files
                          THEN files[AppendName] ELSE 0
                 len == IF w = "Ok"
                           /\ old \in AppendedLengths(MaxAppends - 1)
                          THEN old + n ELSE old
                 opened == With(files, AppendName, len)
             IN  files' = IF md = "Ok" /\ len > MaxFileSize /\ r = "Ok"
                            THEN Without(opened, AppendName)
                          ELSE opened

\* the file of the fourth worker
RandomAccessName == "random_access.dat"

\* one iteration of the fourth worker of the filesystem test: open with
\* create; the reads and writes at random positions happen only in a file
\* longer than 1024 bytes, which this file, created empty, never is
RandomAccessIteration ==
    \E o \in FsOutcomes :
        files' = IF test_dir_exists /\ o = "Ok"
                      /\ RandomAccessName \notin DOMAIN files
                    THEN With(files, RandomAccessName, 0)
                 ELSE files

\* the files each kind of worker writes; the third worker of the
\* filesystem test writes none
OwnFiles ==
    [filesystem    |-> TmpNames,
     churn         |-> ChurnNames,
     append        |-> {AppendName},
     reader        |-> {},
     random_access |-> {RandomAccessName}]

\* what one iteration of thread t does to the files; the third worker of
\* the filesystem test only reads
FileEffect(t) ==
    CASE Kind(t) = "filesystem"    -> TmpIteration
      [] Kind(t) = "churn"         -> ChurnIteration
      [] Kind(t) = "append"        -> AppendIteration
      [] Kind(t) = "random_access" -> RandomAccessIteration
      [] OTHER                     -> files' = files

\* a worker that ends the run for everybody after its iteration
LoopBody_stops_all(t) ==
    /\ tpc[t] \in {"body", "body0"}
    /\ Goto(t, "check")
    /\ stop_signal' = TRUE
    /\ IF Kind(t) \in Counting
          THEN /\ completed_operations' = fetch_add(completed_operations, 1)
               /\ after_stop' =
                     [after_stop EXCEPT
                        ![t] = IF stop_signal THEN @ + 1 ELSE @]
          ELSE UNCHANGED <<completed_operations, after_stop>>
    /\ UNCHANGED <<envVars, fsVars, lockVars, pc, thread_handles, join_idx,
                   now, monitor_count, metrics, progress, report, saw_stop,
                   current_metrics, cleanup_result>>

\* a worker that unwraps the Results of its file calls
LoopBody_unwraps_file_calls(t) ==
    /\ tpc[t] \in {"body", "body0"}
    /\ \E l \in IF Kind(t) \in DOMAIN OwnFiles THEN {"check", "panicked"}
                 ELSE {"check"} :
          /\ Goto(t, l)
          /\ IF l = "check" THEN FileEffect(t) ELSE files' = files
    /\ IF Kind(t) \in Counting
          THEN /\ completed_operations' = fetch_add(completed_operations, 1)
               /\ after_stop' =
                     [after_stop EXCEPT
                        ![t] = IF stop_signal THEN @ + 1 ELSE @]
          ELSE UNCHANGED <<completed_operations, after_stop>>
    /\ UNCHANGED <<envVars, mainVars, lockVars, test_dir_exists, saw_stop>>

\* the rest of one iteration: the synthetic work or the file calls and, in
\* the cpu test, counter.fetch_add(1, Ordering::Relaxed)
LoopBody(t) ==
    /\ tpc[t] \in {"body", "body0"}
    /\ Goto(t, "check")
    /\ IF Kind(t) \in Counting
          THEN /\ completed_operations' = fetch_add(completed_operations, 1)
               /\ after_stop' =
                     [after_stop EXCEPT
                        ![t] = IF stop_signal THEN @ + 1 ELSE @]
          ELSE UNCHANGED <<completed_operations, after_stop>>
    /\ FileEffect(t)
    /\ UNCHANGED <<envVars, mainVars, lockVars, test_dir_exists, saw_stop>>

\* the lock-contention workload starts: Arc::new(Mutex::new(0u64))
LockBegin(t) ==
    /\ tpc[t] = "begin"
    /\ Goto(t, "spawn_subs")
    /\ lock' = lock @@ (t :> NoHolder)
    /\ lock_data' = lock_data @@ (t :> 0)
    /\ sub_join_idx' = sub_join_idx @@ (t :> 0)
    /\ UNCHANGED <<envVars, fsVars, mainVars, completed_operations,
                   after_stop, saw_stop>>

\* handles.push(thread::spawn(..)) of the lock-contention workload
SpawnSub(t) ==
    /\ tpc[t] = "spawn_subs"
    /\ LET n   == Cardinality(SubsOf(t))
           sub == <<t[1], t[2], n + 1>>
       IN  /\ tpc' = [tpc EXCEPT ![t] = IF n + 1 = SubThreads
                                          THEN "join_subs" ELSE "spawn_subs"]
                        @@ (sub :> "check")
           /\ after_stop' = after_stop @@ (sub :> 0)
    /\ UNCHANGED <<envVars, fsVars, mainVars, lockVars, completed_operations,
                   saw_stop>>

\* lock.lock().unwrap() of a sub-thread: blocks while the mutex is held
LockAcquire(t) ==
    /\ tpc[t] = "lock"
    /\ lock[<<t[1], t[2]>>] = NoHolder
    /\ lock' = [lock EXCEPT ![<<t[1], t[2]>>] = t]
    /\ Goto(t, "crit")
    /\ UNCHANGED <<envVars, fsVars, mainVars, lock_data, sub_join_idx,
                   completed_operations, after_stop, saw_stop>>

\* a critical section that leaks the guard, so the mutex stays locked
LockRelease_keeps_guard(t) ==
    /\ tpc[t] = "crit"
    /\ lock_data' = [lock_data EXCEPT ![<<t[1], t[2]>>] = @ + 1]
    /\ Goto(t, "body")
    /\ UNCHANGED <<envVars, fsVars, mainVars, lock, sub_join_idx,
                   completed_operations, after_stop, saw_stop>>

\* *data = data.wrapping_add(1); drop(data)
LockRelease(t) ==
    /\ tpc[t] = "crit"
    /\ lock_data' = [lock_data EXCEPT ![<<t[1], t[2]>>] = @ + 1]
    /\ lock' = [lock EXCEPT ![<<t[1], t[2]>>] = NoHolder]
    /\ Goto(t, "body")
    /\ UNCHANGED <<envVars, fsVars, mainVars, sub_join_idx,
                   completed_operations, after_stop, saw_stop>>

\* a lock-contention workload that drops its handles without joining
JoinSub_without_waiting(t) ==
    /\ tpc[t] = "join_subs"
    /\ sub_join_idx' = [sub_join_idx EXCEPT ![t] = @ + 1]
    /\ Goto(t, IF sub_join_idx[t] + 1 = SubThreads
                  THEN "done" ELSE "join_subs")
    /\ UNCHANGED <<envVars, fsVars, mainVars, lock, lock_data,
                   completed_operations, after_stop, saw_stop>>

\* handle.join().unwrap() of the lock-contention workload
JoinSub(t) ==
    /\ tpc[t] = "join_subs"
    /\ tpc[<<t[1], t[2], sub_join_idx[t] + 1>>] = "done"
    /\ sub_join_idx' = [sub_join_idx EXCEPT ![t] = @ + 1]
    /\ Goto(t, IF sub_join_idx[t] + 1 = SubThreads
                  THEN "done" ELSE "join_subs")
    /\ UNCHANGED <<envVars, fsVars, mainVars, lock, lock_data,
                   completed_operations, after_stop, saw_stop>>

\* one step of the spawned thread t
ThreadStep(t) ==
    \/ MakeDir(t)
    \/ RngInit(t)
    \/ WorkerPanic(t)
    \/ LoopCheck(t)
    \/ LoopBody(t)
    \/ LockBegin(t)
    \/ SpawnSub(t)
    \/ LockAcquire(t)
    \/ LockRelease(t)
    \/ JoinSub(t)

MainStep ==
    \/ SpawnWorker
    \/ SpawnDone
    \/ MonitorSample
    \/ MonitorExit
    \/ CheckLimits
    \/ Progress
    \/ StopStore
    \/ JoinWorker
    \/ Report

Next ==
    \/ MainStep
    \/ \E t \in Spawned : ThreadStep(t)

Spec == Init /\ [][Next]_vars

\* test_filesystem_stress: test_duration values with no monitor turn and
\* with two
FsDurations == {0, 2}

\* what an earlier run that was aborted can have left in the directory
LeftoverFiles == {<<>>, AppendName :> (MaxFileSize - 1024)}

FsInit ==
    /\ test = "filesystem"
    /\ platform \in Platforms
    /\ workloads = FsWorkloads
    /\ config \in {[DefaultConfig(platform) EXCEPT !.test_duration = d] :
                     d \in FsDurations}
    /\ pc = "mkdir"
    /\ tpc = <<>>
    /\ thread_handles = <<>>
    /\ join_idx = 0
    /\ sub_join_idx = <<>>
    /\ stop_signal = FALSE
    /\ completed_operations = 0
    /\ lock = <<>>
    /\ lock_data = <<>>
    /\ now = 0
    /\ monitor_count = 0
    /\ metrics = <<>>
    /\ progress = NoProgress
    /\ report = NoReport
    /\ after_stop = <<>>
    /\ saw_stop = {}
    /\ current_metrics = NoSample
    /\ test_dir_exists \in BOOLEAN
    /\ files \in IF test_dir_exists THEN LeftoverFiles ELSE {<<>>}
    /\ cleanup_result = "none"
    /\ OtherTestsIdle

\* one step of the test thread of the filesystem test
FsMainStep ==
    \/ MakeTestDir
    \/ SpawnWorker
    \/ SpawnDone
    \/ FsMonitor
    \/ MonitorExit
    \/ StopStore
    \/ JoinWorker
    \/ Cleanup

\* one step of a worker of the filesystem test
FsThreadStep(t) ==
    \/ RngInit(t)
    \/ WorkerPanic(t)
    \/ LoopCheck(t)
    \/ LoopBody(t)

FsNext ==
    \/ FsMainStep
    \/ \E t \in Spawned : FsThreadStep(t)

FsSpec == FsInit /\ [][FsNext]_vars

\* every thread the spawn loops can start: the workers of every run shape
\* and the sub-threads of the lock-contention workers among them
ThreadIds ==
    LET shapes  == RunShapes \cup {<<ComprehensiveWorkloads, 5>>}
        workers == UNION { {<<w, k>> : w \in 1..Len(sh[1]),
                                      k \in 1..(sh[2] \div Len(sh[1]))} :
                           sh \in shapes }
        lockers == UNION { {<<w, k>> : w \in {v \in 1..Len(sh[1]) :
                                                sh[1][v] = "lock_contention"},
                                      k \in 1..(sh[2] \div Len(sh[1]))} :
                           sh \in shapes }
    IN  workers \cup {<<t[1], t[2], i>> : t \in lockers, i \in 1..SubThreads}

Thread(t) == t \in Spawned /\ ThreadStep(t)

\* thread t is inside fs::create_dir_all, fs::write or fs::remove_file,
\* calls that return when the file system answers
InFileSystemCall(t) ==
    /\ Kind(t) = "filesystem"
    /\ tpc[t] \in {"mkdir", "body", "body0"}

\* the operating system schedules the test thread and every worker, but a
\* file system call of a worker may never return
HungSpec ==
    /\ Init
    /\ [][Next]_vars
    /\ WF_vars(MainStep)
    /\ \A t \in ThreadIds :
          WF_vars(t \in Spawned /\ ~InFileSystemCall(t) /\ ThreadStep(t))

\* the runs on ios whose limits no reading crosses: they all reach the
\* stop store
FairInit ==
    /\ Init
    /\ platform = "ios"
    /\ config.max_memory_mb = 600

\* the operating system schedules every runnable thread again and again
FairSpec ==
    /\ FairInit
    /\ [][Next]_vars
    /\ WF_vars(MainStep)
    /\ \A t \in ThreadIds : WF_vars(Thread(t))

----------------------------------------------------------------------------
\* check_limits and the reporters on their own: the main thread stands
\* right before check_limits, with the sample just pushed at the end of the
\* history, or right before the reporter.  The readings are readings the
\* metric sources can give and the limits are chosen around them, so that
\* every comparison of check_limits is met from both sides and with
\* equality.

\* longest history handed to a reporter
MaxHistory == 3

\* MemAvailable values (kB) at, below and above 1.5 * 200 MB
BoundaryMemAvailableKb == {300 * 1024 - 1, 300 * 1024, 300 * 1024 + 1}

\* the MemAvailable value (kB) of a device with 5 GiB available
LargeMemAvailableKb == {5 * 1024 * 1024}

\* gen_range(0.0..10.0) draws giving 41, 42 and 43 degrees
BoundaryTemperatureDraws == {6, 7, 8}

\* the samples collect_system_metrics() can return at time t with these
\* readings
BoundarySamples(p, t) ==
    { [m EXCEPT !.memory_used = kb, !.battery_temperature = 35 + r] :
        m \in collect_system_metrics(p, t),
        kb \in IF p = "android"
                  THEN BoundaryMemAvailableKb \cup LargeMemAvailableKb
                ELSE {MemoryFallbackKb},
        r \in BoundaryTemperatureDraws }

\* limits around the readings: 1.5 * 30 = 45 is the ios cpu reading and
\* 1.5 * 33 < 50 < 1.5 * 34 enclose the android one; 1.5 * 341 < 512 <
\* 1.5 * 342 enclose the memory fallback; 1.2 * 35 = 42 degrees
BoundaryConfigs(p) ==
    { [DefaultConfig(p) EXCEPT !.test_duration = MaxDuration,
                               !.max_threads = 0,
                               !.max_cpu_usage = cpu,
                               !.max_memory_mb = mb,
                               !.max_temperature_celsius = tc] :
        cpu \in IF p = "android" THEN {33, 34} ELSE {29, 30, 31},
        mb  \in IF p = "android" THEN {200} ELSE {341, 342},
        tc  \in {35, 45} }

\* gen_range(-5.0..5.0) draws giving a battery level of 45 and of 54
ReportBatteryDraws == {-5, 4}

\* the samples collect_system_metrics() can return at time t with these
\* battery levels
ReportSamples(p, t) ==
    { [m EXCEPT !.battery_level = 50 + r] :
        m \in collect_system_metrics(p, t), r \in ReportBatteryDraws }

\* the histories of length n a run can have collected, oldest first
RECURSIVE Histories(_, _, _)
Histories(p, step, n) ==
    IF n = 0 THEN {<<>>}
    ELSE { Append(h, m) : h \in Histories(p, step, n - 1),
                          m \in ReportSamples(p, n * step) }

\* the five workers of the comprehensive test
ComprehensiveIds == {<<i, 1>> : i \in 1..Len(ComprehensiveWorkloads)}

PureInit ==
    /\ test \in {"cpu", "comprehensive"}
    /\ platform \in Platforms
    /\ workloads = IF test = "cpu" THEN CpuWorkloads
                                    ELSE ComprehensiveWorkloads
    /\ pc \in {"check", "report"}
    /\ thread_handles = IF test = "cpu" THEN <<>>
                         ELSE [i \in 1..Len(workloads) |-> <<i, 1>>]
    /\ sub_join_idx = <<>>
    /\ lock = <<>>
    /\ lock_data = <<>>
    /\ progress = NoProgress
    /\ report = NoReport
    /\ completed_operations = 0
    /\ after_stop = IF test = "cpu" THEN <<>>
                     ELSE [t \in ComprehensiveIds |-> 0]
    /\ IF pc = "check"
         THEN /\ config \in BoundaryConfigs(platform)
              /\ \E m \in BoundarySamples(platform, monitor_interval) :
                    metrics = <<m>>
              /\ now = monitor_interval
              /\ tpc = IF test = "cpu" THEN <<>>
                        ELSE [t \in ComprehensiveIds |->
                                FirstPosition(workloads[t[1]])]
              /\ join_idx = 0
              /\ stop_signal = FALSE
              /\ saw_stop = {}
         ELSE /\ config = [DefaultConfig(platform)
                              EXCEPT !.test_duration = MaxDuration,
                                     !.max_threads = 0]
              /\ \E n \in 0..MaxHistory :
                    /\ metrics \in Histories(platform, monitor_interval, n)
                    /\ now = IF n * monitor_interval < config.test_duration
                               THEN config.test_duration
                               ELSE n * monitor_interval
              /\ tpc = IF test = "cpu" THEN <<>>
                        ELSE [t \in ComprehensiveIds |-> "done"]
              /\ join_idx = Len(thread_handles)
              /\ stop_signal = TRUE
              /\ saw_stop = DOMAIN tpc
    /\ monitor_count = Len(metrics)
    /\ current_metrics = IF metrics = <<>> THEN NoSample
                         ELSE metrics[Len(metrics)]
    /\ test_dir_exists = FALSE
    /\ files = <<>>
    /\ cleanup_result = "none"
    /\ OtherTestsIdle

\* the filesystem test after its join loop, with the directory as the
\* workers left it or already removed by an earlier cleanup
PureCleanupInit ==
    /\ test = "filesystem"
    /\ platform \in Platforms
    /\ workloads = FsWorkloads
    /\ config = DefaultConfig(platform)
    /\ pc = "cleanup"
    /\ thread_handles = [i \in 1..Len(workloads) |-> <<i, 1>>]
    /\ tpc = [t \in {<<i, 1>> : i \in 1..Len(workloads)} |-> "done"]
    /\ join_idx = Len(thread_handles)
    /\ sub_join_idx = <<>>
    /\ stop_signal = TRUE
    /\ completed_operations = 0
    /\ lock = <<>>
    /\ lock_data = <<>>
    /\ now = config.test_duration
    /\ monitor_count = 0
    /\ metrics = <<>>
    /\ progress = NoProgress
    /\ report = NoReport
    /\ after_stop = [t \in DOMAIN tpc |-> 0]
    /\ saw_stop = DOMAIN tpc
    /\ current_metrics = NoSample
    /\ test_dir_exists \in BOOLEAN
    /\ files \in IF test_dir_exists
                   THEN {[n \in S |-> 0] :
                           S \in SUBSET (ChurnNames
                                          \cup {AppendName, RandomAccessName})}
                 ELSE {<<>>}
    /\ cleanup_result = IF test_dir_exists THEN "none" ELSE "Ok"
    /\ OtherTestsIdle

PureNext ==
    \/ CheckLimits
    \/ Report
    \/ Cleanup

PureSpec == (PureInit \/ PureCleanupInit) /\ [][PureNext]_vars

----------------------------------------------------------------------------
\* Properties.

\* the main thread has left the test function, by return or by unwinding
Ended == pc \in {"done", "panicked"}

\* the last sample failed check_limits and the test thread unwound
HardViolation ==
    /\ pc = "panicked"
    /\ metrics # <<>>
    /\ ~check_limits(metrics[Len(metrics)], config)

\* the workers whose closure panicked
Lost == {t \in Spawned : tpc[t] = "panicked"}

\* every spawned thread has ended, by return or by panic
AllTerminated == \A t \in Spawned : tpc[t] \in {"done", "panicked"}

\* the verdict a report carries
Verdict(r) == IF "status" \in DOMAIN r THEN r.status ELSE "NONE"

\* C1: once the limit check on a sample is a hard violation, the stop flag
\* is set and every spawned thread has terminated; no worker is left running
\* after the abort.
C1_HardViolationStopsWorkers ==
    HardViolation => \A t \in Spawned : stop_signal /\ tpc[t] = "done"

\* C2: a run that has spawned its workers ends only with the report
\* generated, whether the monitor loop ended by expiry of test_duration or
\* by a hard violation.
C2_SpawnedRunIsReported ==
    (Ended /\ thread_handles # <<>>) => report # NoReport

\* C3: when the cpu source always returns twice max_cpu_usage, the check on
\* the first sample fails and the run ends with a report whose verdict is
\* FAILED.
C3_DoubleCpuIsReportedFailed ==
    get_cpu_usage(platform) = 2 * config.max_cpu_usage =>
        /\ (metrics # <<>> /\ pc # "check") => ~check_limits(metrics[1], config)
        /\ Ended => (report # NoReport /\ Verdict(report) = "FAILED")

\* C4: the stop flag starts false and its only change is from false to
\* true: once true it is never false again.
C4_StopFlagSetOnce ==
    /\ stop_signal = FALSE
    /\ [][stop_signal => stop_signal']_vars

C4_Witness ==
    /\ stop_signal
    /\ pc = "done"
    /\ Spawned # {}

\* C5 as stated: when the join loop has finished every spawned thread has
\* terminated, and every terminated thread has itself read the stop flag as
\* true.
C5_EveryTerminatedThreadReadStop ==
    /\ pc \in {"report", "done"} => AllTerminated
    /\ \A t \in Spawned : tpc[t] = "done" => t \in saw_stop

\* C5 amended: when the join loop has finished every spawned thread has
\* terminated; every terminated thread that runs a stop-flag loop has read
\* the flag as true, and a lock-contention workload thread, which never
\* reads the flag, has terminated only after all its sub-threads did.
C5_JoinedAndLoopersReadStop ==
    /\ pc \in {"report", "done"} => AllTerminated
    /\ \A t \in Spawned :
          tpc[t] = "done" =>
              IF Kind(t) = "lock_contention"
                THEN /\ Cardinality(SubsOf(t)) = SubThreads
                     /\ \A u \in SubsOf(t) :
                           tpc[u] = "done" /\ u \in saw_stop
                ELSE t \in saw_stop

C5_Witness ==
    /\ pc = "report"
    /\ \E t \in Spawned : Kind(t) = "lock_contention"
    /\ \E t \in Spawned : Kind(t) = "sub" /\ t \in saw_stop

\* C6: once the stop flag is set, under fair scheduling every spawned thread
\* terminates and the join loop returns.
C6_StopLeadsToJoined ==
    stop_signal ~> (AllTerminated /\ pc \in {"report", "done"})

\* the flag was stored while a worker was inside an iteration, and the join
\* loop has returned
C6_Witness ==
    /\ pc = "report"
    /\ \E t \in Spawned : after_stop[t] = 1

\* C7: after the stop flag is set a worker or sub-thread completes at most
\* one more iteration: it increments the counter at most once more.
C7_AtMostOneIterationAfterStop ==
    \A t \in Spawned : after_stop[t] <= 1

C7_Witness ==
    \E t \in Spawned : after_stop[t] = 1 /\ tpc[t] = "done"

\* C8: the operation counter never decreases, and a value the monitor
\* reads is never smaller than the value it read before.
C8_CounterNeverDecreases ==
    [][/\ completed_operations' >= completed_operations
       /\ progress'.ops >= progress.ops]_vars

C8_Witness ==
    /\ progress.ops > 0
    /\ completed_operations > progress.ops

\* fairly scheduled workers complete an iteration each within the first
\* second, so the counter is at least the number of looping threads
FairlyScheduled ==
    completed_operations >=
        Cardinality({t \in Spawned : Kind(t) \in Counting})

\* C9: with test_duration >= 1s, max_threads >= 1 and at least one workload
\* descriptor, the counter value passed to the reporter is greater than
\* zero when the workers were scheduled fairly.
C9_ReportedOperationsPositive ==
    (/\ test = "cpu"
     /\ report # NoReport
     /\ config.test_duration >= 1
     /\ config.max_threads >= 1
     /\ Len(workloads) >= 1
     /\ FairlyScheduled) => report.total_operations > 0

\* C10: for max_threads >= 1 and a non-empty descriptor list, the spawn
\* loop starts at least one thread for every descriptor.
C10_EveryDescriptorGetsAThread ==
    (/\ pc # "spawn"
     /\ config.max_threads >= 1
     /\ Len(workloads) >= 1) =>
        \A w \in 1..Len(workloads) :
            \E i \in 1..Len(thread_handles) : thread_handles[i][1] = w

\* a sample is above one of the hard limits: cpu above 1.5 times
\* max_cpu_usage, memory in MB above 1.5 times max_memory_mb, temperature
\* above 1.2 times max_temperature_celsius
HardLimitExceeded(m, c) ==
    \/ 2 * m.cpu_usage > 3 * c.max_cpu_usage
    \/ 2 * m.memory_used > 3 * 1024 * c.max_memory_mb
    \/ 5 * m.battery_temperature > 6 * c.max_temperature_celsius

\* a sample is above one of the nominal thresholds
NominalExceeded(m, c) ==
    \/ m.cpu_usage > c.max_cpu_usage
    \/ m.memory_used > 1024 * c.max_memory_mb
    \/ m.battery_temperature > c.max_temperature_celsius

\* a sample is below every nominal threshold
BelowThresholds(m, c) ==
    /\ m.cpu_usage < c.max_cpu_usage
    /\ m.memory_used < 1024 * c.max_memory_mb
    /\ m.battery_temperature < c.max_temperature_celsius

C12_LostWorkerNeverPassed ==
    (pc = "done" /\ Lost # {}) => Verdict(report) # "PASSED"

\* C13: when a worker never gets to see the stop flag, the test thread does
\* not stay in the join loop forever: the run leaves it by a join timeout.
C13_JoinDoesNotBlockForever ==
    (pc = "join") ~> (pc \in {"report", "done", "panicked"})

\* C14: with max_threads = 0 or test_duration = 0 the run is rejected
\* before any worker is spawned: no thread exists, the run is never in the
\* monitor loop or beyond, and no report is produced.
C14_InvalidConfigIsRejected ==
    (config.max_threads = 0 \/ config.test_duration = 0) =>
        /\ Spawned = {}
        /\ pc \notin {"monitor", "check", "progress", "stop", "join",
                       "report", "done"}
        /\ report = NoReport

\* C15: the limit check on a sample is a hard violation if and only if the
\* sample is above one of the hard limits; a value equal to its hard limit
\* is not a hard violation.
C15_HardViolationIffAboveHardLimit ==
    (pc \in {"monitor", "progress", "panicked"} /\ metrics # <<>>) =>
        ((pc = "panicked") <=> HardLimitExceeded(metrics[Len(metrics)], config))

\* the check let a sample pass whose cpu usage and temperature are equal to
\* their hard limits
C15_Witness ==
    /\ pc = "monitor"
    /\ metrics # <<>>
    /\ 2 * metrics[Len(metrics)].cpu_usage = 3 * config.max_cpu_usage
    /\ 5 * metrics[Len(metrics)].battery_temperature
           = 6 * config.max_temperature_celsius

\* C16: a run with workers, none of them lost, and a sample above a
\* nominal threshold but not above the hard limits goes on to its
\* configured duration, and its final report lists the soft violation.
C16_SoftViolationIsReported ==
    (/\ pc = "done"
     /\ thread_handles # <<>>
     /\ Lost = {}
     /\ \E i \in 1..Len(metrics) :
           /\ NominalExceeded(metrics[i], config)
           /\ ~HardLimitExceeded(metrics[i], config)) =>
        /\ now >= config.test_duration
        /\ "violations" \in DOMAIN report

\* C17: the verdict of the report of a run with workers, none of them
\* lost, is FAILED when a hard violation occurred or the history is empty,
\* and PASSED otherwise.
C17_VerdictFromViolationsAndHistory ==
    (report # NoReport /\ thread_handles # <<>> /\ Lost = {}) =>
        Verdict(report) =
            IF \/ metrics = <<>>
               \/ \E i \in 1..Len(metrics) :
                     HardLimitExceeded(metrics[i], config)
              THEN "FAILED" ELSE "PASSED"

\* C18: a reporter called on a history of any length, the empty one
\* included, completes: it leaves a report and the test thread goes on,
\* without a panic.
C18_ReporterCompletesOnAnyHistory ==
    [][pc = "report" =>
          /\ pc' = "done"
          /\ report'.kind \in {"empty", "results", "comprehensive"}]_vars

\* a reporter has returned from the empty history
C18_Witness ==
    /\ pc = "done"
    /\ metrics = <<>>
    /\ report.kind = "empty"

\* C19: a run of at least one second, with workers of which none is lost,
\* whose samples are all below every threshold collects
\* ceil(test_duration / monitor_interval) samples and ends with the
\* verdict PASSED.
C19_NominalRunCollectsCeilAndPasses ==
    (/\ pc = "done"
     /\ thread_handles # <<>>
     /\ Lost = {}
     /\ config.test_duration >= 1
     /\ \A i \in 1..Len(metrics) : BelowThresholds(metrics[i], config)) =>
        /\ Len(metrics) =
              (config.test_duration + monitor_interval - 1)
                  \div monitor_interval
        /\ Verdict(report) = "PASSED"

\* C20: the history is append-only and written by the monitor loop alone:
\* a step either leaves it as it is or is a monitor turn that appends one
\* sample, taken now, after the existing entries; the limit check that
\* follows fails only on that last sample.
C20_HistoryAppendOnly ==
    [][/\ \/ metrics' = metrics
          \/ /\ pc = "monitor" /\ pc' = "check"
             /\ Len(metrics') = Len(metrics) + 1
             /\ SubSeq(metrics', 1, Len(metrics)) = metrics
             /\ metrics'[Len(metrics')].timestamp = now'
       /\ (pc = "check" /\ pc' = "panicked") =>
             HardLimitExceeded(metrics[Len(metrics)], config)]_vars

\* the history holds more than one sample and the newest is being checked
C20_Witness ==
    /\ pc = "check"
    /\ Len(metrics) >= 2

\* C21: the samples of the history are strictly ordered by timestamp: an
\* earlier position holds a smaller timestamp.
C21_HistoryStrictlyOrdered ==
    \A i, j \in 1..Len(metrics) :
        i < j => metrics[i].timestamp < metrics[j].timestamp

\* the history holds three samples
C21_Witness == Len(metrics) >= 3

\* C27: the lock-contention workload has returned only when all of its
\* sub-threads were spawned and have ended, and its sub-threads do not
\* deadlock on the mutex: a held mutex is held by a sub-thread that is
\* inside its critical section and so will release it.
C27_LockWorkloadJoinsItsSubThreads ==
    \A t \in Spawned :
        Kind(t) = "lock_contention" =>
            /\ tpc[t] = "done" =>
                  /\ Cardinality(SubsOf(t)) = SubThreads
                  /\ \A u \in SubsOf(t) : tpc[u] = "done"
            /\ (t \in DOMAIN lock /\ lock[t] # NoHolder) =>
                  /\ lock[t] \in SubsOf(t)
                  /\ tpc[lock[t]] = "crit"
            /\ \A u \in SubsOf(t) : tpc[u] = "crit" => lock[t] = u

\* a lock-contention workload has returned after its sub-threads went
\* through the mutex
C27_Witness ==
    \E t \in Spawned :
        /\ Kind(t) = "lock_contention"
        /\ tpc[t] = "done"
        /\ lock_data[t] >= 2

\* C28: a step of a worker thread writes neither the stop flag nor the
\* metrics history nor any other variable of the test thread, and the stop
\* flag is written only by the test thread's store.
C28_WorkersLeaveFlagAndHistoryAlone ==
    [][/\ (\E t \in Spawned : ThreadStep(t)) =>
             UNCHANGED <<stop_signal, metrics, pc, thread_handles, join_idx,
                         now, monitor_count, progress, report>>
       /\ stop_signal' # stop_signal => (pc = "stop" /\ pc' # "stop")]_vars

\* workers have counted operations and the flag has been stored
C28_Witness ==
    /\ stop_signal
    /\ completed_operations >= 2
    /\ metrics # <<>>

\* C22: the sample a limit check runs on is already in the history, as
\* its last element, when the check starts, and it still is when the
\* check has failed and the test thread unwinds.
C22_CheckedSampleIsLastOfHistory ==
    /\ pc = "check" =>
          /\ metrics # <<>>
          /\ metrics[Len(metrics)] = current_metrics
    /\ (pc = "panicked" /\ current_metrics # NoSample
           /\ ~check_limits(current_metrics, config)) =>
          /\ metrics # <<>>
          /\ metrics[Len(metrics)] = current_metrics

\* a limit check has failed on a sample of a run with workers
C22_Witness ==
    /\ pc = "panicked"
    /\ thread_handles # <<>>
    /\ metrics # <<>>
    /\ ~check_limits(current_metrics, config)

\* C23: every sample of the history has memory_used <= memory_total and a
\* battery level from 0 to 100.
C23_SampleWithinTotals ==
    \A i \in 1..Len(metrics) :
        /\ metrics[i].memory_used <= metrics[i].memory_total
        /\ 0 <= metrics[i].battery_level
        /\ metrics[i].battery_level <= 100

\* the values of the field f in the history ms
ValuesOf(ms, f) == {ms[i][f] : i \in 1..Len(ms)}

\* the greatest and the least element of a non-empty set of numbers
Greatest(S) == CHOOSE x \in S : \A y \in S : y <= x
Least(S) == CHOOSE x \in S : \A y \in S : x <= y

\* the samples of ms that have thermal_throttling set, counted one by one
RECURSIVE ThrottlingCount(_)
ThrottlingCount(ms) ==
    IF ms = <<>> THEN 0
    ELSE (IF ms[1].thermal_throttling THEN 1 ELSE 0)
           + ThrottlingCount(Tail(ms))

\* C30: the report printed for a non-empty history gives the number of
\* samples with thermal_throttling set, the greatest cpu usage, the
\* greatest memory use (in whole MB) and the least battery level of the
\* history; the cpu test's results give the greatest temperature.
C30_AggregatesEqualReference ==
    /\ (metrics # <<>> /\ report.kind = "comprehensive") =>
          /\ report.throttling_events = ThrottlingCount(metrics)
          /\ report.peak_cpu = Greatest(ValuesOf(metrics, "cpu_usage"))
          /\ report.peak_memory_mb =
                Greatest(ValuesOf(metrics, "memory_used")) \div 1024
          /\ report.min_battery = Least(ValuesOf(metrics, "battery_level"))
    /\ (metrics # <<>> /\ report.kind = "results") =>
          report.max_temp =
             Greatest(ValuesOf(metrics, "battery_temperature"))

\* a report on a history whose last sample is neither the peak of
\* memory nor the battery minimum and whose samples differ in throttling
C30_Witness ==
    /\ report.kind = "comprehensive"
    /\ Len(metrics) >= 3
    /\ metrics[Len(metrics)].memory_used < report.peak_memory_mb * 1024
    /\ metrics[Len(metrics)].battery_level > report.min_battery
    /\ report.throttling_events \in 1..(Len(metrics) - 1)

\* C24: when a run of the filesystem test has ended, by return or by a
\* failed assertion of the monitor loop, and fs::remove_dir_all has not
\* failed, the scratch directory and the files in it are gone.
C24_ScratchRemovedOnEveryExit ==
    (test = "filesystem" /\ Ended /\ cleanup_result # "Err") =>
        (~test_dir_exists /\ files = <<>>)

\* C25: a cleanup that runs when an earlier cleanup has removed the
\* directory changes nothing on disk and returns normally.
C25_SecondCleanupIsNoOp ==
    [][(pc = "cleanup" /\ cleanup_result = "Ok" /\ ~test_dir_exists) =>
          /\ pc' = "done"
          /\ test_dir_exists' = test_dir_exists
          /\ files' = files]_vars

\* a second cleanup has returned after fs::remove_dir_all gave Err on the
\* missing directory
C25_Witness ==
    /\ test = "filesystem"
    /\ pc = "done"
    /\ cleanup_result = "Err"
    /\ ~test_dir_exists
    /\ files = <<>>

\* the file n is on disk and was written in this run: it is not the file
\* an earlier run can have left
WrittenInThisRun(n) ==
    /\ n \in DOMAIN files
    /\ \A f \in LeftoverFiles : n \in DOMAIN f => files[n] # f[n]

\* C26: when a worker that writes files has returned from its loop, none
\* of the files it wrote in this run is on disk.
C26_WorkerLeavesNoFile ==
    \A t \in Spawned :
        (Kind(t) \in DOMAIN OwnFiles /\ tpc[t] = "done") =>
            \A n \in OwnFiles[Kind(t)] : ~WrittenInThisRun(n)

\* C29: an iteration of a worker that makes file calls always ends at the
\* loop test, whatever the calls returned; such a worker ends only by
\* reading the stop flag as true, and it unwinds only where it creates
\* its random generator, before any file call of the iteration.
C29_FailedFileCallKeepsWorkerLooping ==
    [][\A t \in Spawned :
          Kind(t) \in DOMAIN OwnFiles =>
              /\ (tpc[t] = "body" /\ tpc'[t] # "body") => tpc'[t] = "check"
              /\ (tpc[t] = "body0" /\ tpc'[t] # "body0") =>
                    \/ tpc'[t] = "check"
                    \/ tpc'[t] = "panicked" /\ files' = files
              /\ (tpc[t] # "done" /\ tpc'[t] = "done") =>
                    (stop_signal /\ tpc[t] \in {"check", "check0"})
              /\ (tpc[t] # "panicked" /\ tpc'[t] = "panicked") =>
                    tpc[t] \in {"rng", "body0"}]_vars

\* the append worker has returned on the stop flag with its file above
\* the limit: fs::metadata or fs::remove_file had failed
C29_Witness ==
    \E t \in Spawned :
        /\ Kind(t) = "append"
        /\ tpc[t] = "done"
        /\ t \in saw_stop
        /\ AppendName \in DOMAIN files
        /\ files[AppendName] > MaxFileSize

\* C31: a report exists only when the stop flag is set and every spawned
\* thread has been joined and has ended, and the operation count it
\* prints is the counter; the counter starts at zero and every step
\* raises it by the number of loop iterations that step completes, so the
\* count of the report is the number of iterations of all workers.
C31_ReportCountsAllIterations ==
    /\ completed_operations = 0
    /\ [](report # NoReport =>
            /\ stop_signal
            /\ join_idx = Len(thread_handles)
            /\ AllTerminated
            /\ "total_operations" \in DOMAIN report =>
                  report.total_operations = completed_operations)
    /\ [][completed_operations' = completed_operations +
             Cardinality({t \in Spawned :
                            /\ Kind(t) \in Counting
                            /\ tpc[t] \in {"body", "body0"}
                            /\ tpc'[t] = "check"})]_vars

\* the cpu test has reported the iterations of two joined workers
C31_Witness ==
    /\ test = "cpu"
    /\ report # NoReport
    /\ Len(thread_handles) >= 2
    /\ report.total_operations >= 2

\* the thresholds of the run are those of StressTestConfig::default()
DefaultThresholds ==
    /\ config.max_cpu_usage = DefaultConfig(platform).max_cpu_usage
    /\ config.max_memory_mb = DefaultConfig(platform).max_memory_mb
    /\ config.max_temperature_celsius =
          DefaultConfig(platform).max_temperature_celsius

\* C32: in a run with workers and the default thresholds every sample
\* whose memory reading is the 512 MiB fallback passes check_limits, and
\* the run does not end by a failed limit check.
C32_DefaultRunPassesLimitCheck ==
    (DefaultThresholds /\ thread_handles # <<>>) =>
        /\ \A i \in 1..Len(metrics) :
              metrics[i].memory_used = MemoryFallbackKb =>
                  check_limits(metrics[i], config)
        /\ ~(HardViolation /\ current_metrics.memory_used = MemoryFallbackKb)


\* threads that have been spawned and have not yet returned or panicked
LiveThreads == {t \in Spawned : tpc[t] \notin {"done", "panicked"}}

\* C33: in the cpu test the number of workload threads alive at the same
\* time, the sub-threads of the lock-contention workload included, never
\* exceeds config.max_threads.
C33_LiveThreadsWithinMaxThreads ==
    test = "cpu" => Cardinality(LiveThreads) <= config.max_threads

\* C34: in every sample collected, thermal_throttling is true exactly when
\* the battery_temperature of that same sample is above 40 degrees.
C34_ThrottlingMatchesTemperature ==
    \A i \in 1..Len(metrics) :
        metrics[i].thermal_throttling <=> metrics[i].battery_temperature > 40

\* C36: the progress line never divides by zero: whenever the main thread
\* computes operations per second, the elapsed whole seconds are at least 5,
\* and every progress line printed carries a divisor of at least 5.
C36_ProgressDivisorAtLeastFive ==
    /\ pc = "progress" => now >= 5
    /\ progress # NoProgress =>
          /\ progress.elapsed >= 5
          /\ progress.rate = progress.ops \div progress.elapsed

C36_Witness ==
    /\ progress # NoProgress
    /\ progress.ops > 0
    /\ pc # "panicked"

\* C40: at the end of every iteration of the append worker the file
\* write_stress.dat is absent or no longer than max_file_size_mb MiB.
C40_AppendFileWithinLimit ==
    test = "filesystem" =>
        (AppendName \in DOMAIN files => files[AppendName] <= MaxFileSize)

-----------------------------------------------------------------------------
\* test_memory_pressure_stress: one thread that allocates a buffer in every
\* turn of its loop, keeps it in a pool, and releases part of the pool
\* whenever the pool length is a multiple of 100.

\* most turns of the allocation loop in a run
MaxAllocations == 110

\* vec![0u8; n] of the four allocation patterns: the lengths
allocation_patterns == <<1024, 64 * 1024, 256 * 1024, 1024 * 1024>>

\* gen_range(0..allocation_patterns.len()): the draw taken in turn k
PatternDraws(k) == {(k % Len(allocation_patterns)) + 1}

\* the pool is trimmed when allocations.len() % 100 == 0
ReleaseEvery == 100

\* gen_range(10..50)
ReleaseCounts == 10..49

\* MemAvailable values (kB) of a device under memory pressure: 40 MiB and
\* 300 MiB
PressureMemAvailableKb == {40 * 1024, 300 * 1024}

\* memory_usage_mb(): get_memory_used() / 1024 / 1024 as f64, kept in KiB
\* so that no fraction is lost; the values one call can return
memory_usage_mb(p) ==
    IF p = "android" THEN PressureMemAvailableKb \cup {MemoryFallbackKb}
    ELSE {MemoryFallbackKb}

\* measure_pressure_response(): the time to allocate 10 MiB, in ms
PressureResponses == {50, 200}

\* Vec::pop applied n times
RECURSIVE PopTimes(_, _)
PopTimes(v, n) ==
    IF n = 0 \/ v = <<>> THEN v
    ELSE PopTimes(SubSeq(v, 1, Len(v) - 1), n - 1)

\* the variables of the stress tests with workers that this test leaves
\* alone
workerVars == <<tpc, thread_handles, join_idx, sub_join_idx, stop_signal,
                completed_operations, lock, lock_data, now, monitor_count,
                metrics, progress, after_stop, saw_stop, current_metrics,
                test_dir_exists, files, cleanup_result>>

MemInit ==
    /\ test = "memory_pressure"
    /\ platform \in Platforms
    /\ config = DefaultConfig(platform)
    /\ workloads = <<>>
    /\ pc = "alloc"
    /\ tpc = <<>>
    /\ thread_handles = <<>>
    /\ join_idx = 0
    /\ sub_join_idx = <<>>
    /\ stop_signal = FALSE
    /\ completed_operations = 0
    /\ lock = <<>>
    /\ lock_data = <<>>
    /\ now = 0
    /\ monitor_count = 0
    /\ metrics = <<>>
    /\ progress = NoProgress
    /\ report = NoReport
    /\ after_stop = <<>>
    /\ saw_stop = {}
    /\ current_metrics = NoSample
    /\ test_dir_exists = FALSE
    /\ files = <<>>
    /\ cleanup_result = "none"
    /\ OtherTestsIdle

\* a turn of the allocation loop that never trims the pool
MemIteration_without_release ==
    /\ pc = "alloc"
    /\ Len(allocated_sizes) < MaxAllocations
    /\ \E before \in memory_usage_mb(platform),
          after \in memory_usage_mb(platform),
          current_memory \in memory_usage_mb(platform),
          pattern \in PatternDraws(Len(allocated_sizes)),
          pressure_response \in PressureResponses :
         LET size   == allocation_patterns[pattern]
             pushed == Append(allocations, size)
         IN  /\ Len(memory_pressure_history) >= VariedSamples =>
                  /\ <<before, after>> =
                       memory_pressure_history[Len(memory_pressure_history)]
                  /\ current_memory = after
             /\ allocated_sizes' = Append(allocated_sizes, size)
             /\ memory_pressure_history' =
                  Append(memory_pressure_history, <<before, after>>)
             /\ IF ~(current_memory < config.max_memory_mb * 2 * 1024)
                  THEN pc' = "panicked" /\ allocations' = <<>>
                ELSE /\ allocations' = pushed
                     /\ pc' = IF /\ after > config.max_memory_mb * 1024
                                 /\ ~(pressure_response < 200)
                                THEN "panicked" ELSE "alloc"
    /\ UNCHANGED <<test, platform, config, workloads, workerVars, report,
                   regVars, e2eVars>>

\* one turn of the loop at lines 197-237: allocate, push, assert on the
\* memory reading, trim the pool, measure the pressure response; a failed
\* assert! unwinds the test thread, which drops the pool
MemIteration ==
    /\ pc = "alloc"
    /\ Len(allocated_sizes) < MaxAllocations
    /\ \E before \in memory_usage_mb(platform),
          after \in memory_usage_mb(platform),
          current_memory \in memory_usage_mb(platform),
          pattern \in PatternDraws(Len(allocated_sizes)),
          release_count \in ReleaseCounts,
          pressure_response \in PressureResponses :
         LET size   == allocation_patterns[pattern]
             pushed == Append(allocations, size)
         IN  /\ Len(memory_pressure_history) >= VariedSamples =>
                  /\ <<before, after>> =
                       memory_pressure_history[Len(memory_pressure_history)]
                  /\ current_memory = after
             /\ allocated_sizes' = Append(allocated_sizes, size)
             /\ memory_pressure_history' =
                  Append(memory_pressure_history, <<before, after>>)
             /\ IF ~(current_memory < config.max_memory_mb * 2 * 1024)
                  THEN pc' = "panicked" /\ allocations' = <<>>
                ELSE /\ allocations' =
                          IF Len(pushed) % ReleaseEvery = 0
                            THEN PopTimes(pushed, release_count)
                          ELSE pushed
                     /\ pc' = IF /\ after > config.max_memory_mb * 1024
                                 /\ ~(pressure_response < 200)
                                THEN "panicked" ELSE "alloc"
    /\ UNCHANGED <<test, platform, config, workloads, workerVars, report,
                   regVars, e2eVars>>

\* the loop ends: start_time.elapsed() >= test_duration
MemLoopExit ==
    /\ pc = "alloc"
    /\ pc' = "drop"
    /\ UNCHANGED <<test, platform, config, workloads, workerVars, report,
                   memVars, regVars, e2eVars>>

\* drop(allocations)
MemDrop ==
    /\ pc = "drop"
    /\ allocations' = <<>>
    /\ pc' = "final"
    /\ UNCHANGED <<test, platform, config, workloads, workerVars, report,
                   allocated_sizes, memory_pressure_history, regVars,
                   e2eVars>>

\* sizes.iter().sum::<usize>(), over the first n sizes
RECURSIVE SizeSum(_, _)
SizeSum(sizes, n) ==
    IF n = 0 THEN 0 ELSE sizes[n] + SizeSum(sizes, n - 1)

\* sizes.iter().max().unwrap_or(&0)
SizeMax(sizes) ==
    IF sizes = <<>> THEN 0
    ELSE CHOOSE m \in {sizes[i] : i \in 1..Len(sizes)} :
            \A i \in 1..Len(sizes) : sizes[i] <= m

\* analyze_allocation_patterns(): what it prints; the average is printed
\* with two decimals and is kept in hundredths of a KB (every size is a
\* whole number of KB), and the average of no sizes is the f64 NaN
analyze_allocation_patterns(sizes) ==
    [kind              |-> "allocation",
     total_allocations |-> Len(sizes),
     average_size_kb   |-> IF sizes = <<>> THEN "NaN"
                           ELSE ((SizeSum(sizes, Len(sizes)) \div 1024) * 100)
                                  \div Len(sizes),
     max_size_kb       |-> SizeMax(sizes) \div 1024]

\* assert!(final_memory < 50.0) and the allocation analysis
MemFinal ==
    /\ pc = "final"
    /\ \E final_memory \in memory_usage_mb(platform) :
          IF final_memory < 50 * 1024
            THEN /\ report' = analyze_allocation_patterns(allocated_sizes)
                 /\ pc' = "done"
          ELSE /\ pc' = "panicked"
               /\ UNCHANGED report
    /\ UNCHANGED <<test, platform, config, workloads, workerVars, memVars,
                   regVars, e2eVars>>

MemNext ==
    \/ MemIteration
    \/ MemLoopExit
    \/ MemDrop
    \/ MemFinal

MemSpec == MemInit /\ [][MemNext]_vars

\* C35: in the memory-pressure run the pool never holds more than 100
\* buffers at the end of a turn of the loop, and a turn whose push takes
\* the pool to a multiple of 100 entries ends with 10 to 49 of them
\* released.
C35_PoolTrimmedAtHundred ==
    /\ [](Len(allocations) <= 100)
    /\ [][(/\ pc = "alloc"
           /\ pc' = "alloc"
           /\ (Len(allocations) + 1) % 100 = 0)
            => /\ Len(allocations') >= Len(allocations) + 1 - 49
               /\ Len(allocations') <= Len(allocations) + 1 - 10]_vars

\* the pool has been trimmed and has grown again afterwards
C35_Witness ==
    /\ test = "memory_pressure"
    /\ pc = "alloc"
    /\ Len(allocated_sizes) > 100
    /\ Len(allocations) < 100
    /\ Len(allocations) >= 52

-----------------------------------------------------------------------------
\* test_mobile_threading_performance (reg_test.rs): num_threads threads
\* meet at a Barrier and then each adds 1 to a shared atomic counter in a
\* loop; the test thread joins them and checks the time taken.

\* turns of each thread's loop (for i in 0..10000 in the source)
LoopLength == 3

\* 4 threads on android, 2 on ios
num_threads == IF platform = "android" THEN 4 ELSE 2

\* the baseline of the threading test in ms: 10 for 2 threads, 15 for 4
ThreadingBaseline == IF num_threads = 2 THEN 10 ELSE 15

\* start.elapsed() after the joins, in ms
ThreadingDurations == {5, 18, 40}

\* check_mobile_performance(): the tolerance in tenths
tolerance == IF platform = "android" THEN 10 ELSE 7

\* check_mobile_performance(): ratio > 1.0 + tolerance, with ratio =
\* current / baseline
check_mobile_performance(current, baseline) ==
    ~(current * 10 > (10 + tolerance) * baseline)

\* the variables of the stress tests that the threading test leaves alone
regIdleVars == <<test, platform, config, workloads, sub_join_idx,
                 stop_signal, completed_operations, lock, lock_data, now,
                 monitor_count, metrics, progress, after_stop, saw_stop,
                 current_metrics, test_dir_exists, files, cleanup_result,
                 memVars, e2eVars>>

RegInit ==
    /\ test = "threading"
    /\ platform \in Platforms
    /\ config = DefaultConfig(platform)
    /\ workloads = <<>>
    /\ pc = "spawn"
    /\ tpc = <<>>
    /\ thread_handles = <<>>
    /\ join_idx = 0
    /\ sub_join_idx = <<>>
    /\ stop_signal = FALSE
    /\ completed_operations = 0
    /\ lock = <<>>
    /\ lock_data = <<>>
    /\ now = 0
    /\ monitor_count = 0
    /\ metrics = <<>>
    /\ progress = NoProgress
    /\ report = NoReport
    /\ after_stop = <<>>
    /\ saw_stop = {}
    /\ current_metrics = NoSample
    /\ test_dir_exists = FALSE
    /\ files = <<>>
    /\ cleanup_result = "none"
    /\ OtherTestsIdle

\* one turn of the spawn loop: thread::spawn and handles.push
RegSpawn ==
    /\ pc = "spawn"
    /\ LET t == Len(thread_handles) + 1
       IN  /\ tpc' = tpc @@ (t :> "wait")
           /\ loop_i' = loop_i @@ (t :> 0)
           /\ thread_handles' = Append(thread_handles, t)
           /\ pc' = IF t = num_threads THEN "join" ELSE "spawn"
    /\ UNCHANGED <<regIdleVars, join_idx, report, barrier, counter>>

\* a barrier.wait() that returns at once
BarrierWait_without_blocking(t) ==
    /\ tpc[t] = "wait"
    /\ barrier' = (barrier + 1) % num_threads
    /\ tpc' = [tpc EXCEPT ![t] = "loop"]
    /\ UNCHANGED <<regIdleVars, pc, thread_handles, join_idx, report,
                   counter, loop_i>>

\* barrier.wait(): the thread blocks until num_threads threads have
\* called wait; the last one to call releases them all
BarrierWait(t) ==
    /\ tpc[t] = "wait"
    /\ IF barrier + 1 = num_threads
         THEN /\ barrier' = 0
              /\ tpc' = [u \in DOMAIN tpc |->
                           IF u = t \/ tpc[u] = "blocked" THEN "loop"
                           ELSE tpc[u]]
         ELSE /\ barrier' = barrier + 1
              /\ tpc' = [tpc EXCEPT ![t] = "blocked"]
    /\ UNCHANGED <<regIdleVars, pc, thread_handles, join_idx, report,
                   counter, loop_i>>

\* one turn of for i in 0..10000: counter.fetch_add(1, Relaxed), and
\* thread::yield_now() when i % 100 == 0; the thread returns after the
\* last turn
RegLoop(t) ==
    /\ tpc[t] = "loop"
    /\ counter' = fetch_add(counter, 1)
    /\ loop_i' = [loop_i EXCEPT ![t] = loop_i[t] + 1]
    /\ tpc' = [tpc EXCEPT ![t] = IF loop_i[t] + 1 = LoopLength
                                    THEN "done" ELSE "loop"]
    /\ UNCHANGED <<regIdleVars, pc, thread_handles, join_idx, report,
                   barrier>>

\* handle.join().unwrap(): blocks until the thread has returned
RegJoin ==
    /\ pc = "join"
    /\ tpc[thread_handles[join_idx + 1]] = "done"
    /\ join_idx' = join_idx + 1
    /\ pc' = IF join_idx + 1 = Len(thread_handles)
                THEN "check_performance" ELSE "join"
    /\ UNCHANGED <<regIdleVars, tpc, thread_handles, report, regVars>>

\* check_mobile_performance on the time the threads took: panics on a
\* regression
RegCheck ==
    /\ pc = "check_performance"
    /\ \E duration \in ThreadingDurations :
          IF check_mobile_performance(duration, ThreadingBaseline)
            THEN /\ report' = [kind     |-> "performance",
                               current  |-> duration,
                               baseline |-> ThreadingBaseline]
                 /\ pc' = "done"
          ELSE /\ pc' = "panicked"
               /\ UNCHANGED report
    /\ UNCHANGED <<regIdleVars, tpc, thread_handles, join_idx, regVars>>

RegThreadStep(t) ==
    \/ BarrierWait(t)
    \/ RegLoop(t)

RegNext ==
    \/ RegSpawn
    \/ RegJoin
    \/ RegCheck
    \/ \E t \in DOMAIN tpc : RegThreadStep(t)

RegSpec == RegInit /\ [][RegNext]_vars

\* the threads that have called barrier.wait()
AtBarrier == {t \in DOMAIN tpc : tpc[t] # "wait"}

\* C37: in the threading test no thread has incremented the counter before
\* all num_threads threads have reached the barrier, and once every thread
\* is joined the counter is num_threads times the length of the loop.
C37_BarrierThenFullCount ==
    test = "threading" =>
        /\ counter > 0 => Cardinality(AtBarrier) = num_threads
        /\ \A t \in DOMAIN tpc :
              loop_i[t] > 0 => Cardinality(AtBarrier) = num_threads
        /\ pc \in {"check_performance", "done", "panicked"} =>
              counter = num_threads * LoopLength

\* four threads have been joined after interleaved increments
C37_Witness ==
    /\ test = "threading"
    /\ num_threads = 4
    /\ pc = "done"
    /\ join_idx = num_threads
    /\ counter = num_threads * LoopLength

-----------------------------------------------------------------------------
\* The e2e tests (e2e.rs) that work on files of the app directory and of
\* the cache directory.  A directory is the map from the names of its
\* files to their contents; a content is JSON text, given by the value it
\* encodes, other text, or bytes.

Json(v) == [kind |-> "json", value |-> v]
Text(s) == [kind |-> "text", value |-> s]
Bytes(b) == [kind |-> "bytes", value |-> b]

\* the variables of the stress tests that the e2e tests leave alone
e2eIdleVars == <<test, platform, config, workloads, workerVars, report,
                 memVars, regVars>>

\* the state of everything but the two directories at the start of an e2e
\* test
E2eStart ==
    /\ platform \in Platforms
    /\ config = DefaultConfig(platform)
    /\ workloads = <<>>
    /\ pc = "create_dir"
    /\ tpc = <<>>
    /\ thread_handles = <<>>
    /\ join_idx = 0
    /\ sub_join_idx = <<>>
    /\ stop_signal = FALSE
    /\ completed_operations = 0
    /\ lock = <<>>
    /\ lock_data = <<>>
    /\ now = 0
    /\ monitor_count = 0
    /\ metrics = <<>>
    /\ progress = NoProgress
    /\ report = NoReport
    /\ after_stop = <<>>
    /\ saw_stop = {}
    /\ current_metrics = NoSample
    /\ test_dir_exists = FALSE
    /\ files = <<>>
    /\ cleanup_result = "none"
    /\ allocations = <<>>
    /\ allocated_sizes = <<>>
    /\ memory_pressure_history = <<>>
    /\ barrier = 0
    /\ counter = 0
    /\ loop_i = <<>>
    /\ operations = 0
    /\ synced = <<>>
    /\ user_data = NoUserData

\* fs::create_dir_all(..).expect(..) at the start of both tests
E2eCreateDir ==
    /\ pc = "create_dir"
    /\ \E o \in FsOutcomes :
          pc' = IF o = "Err" THEN "panicked"
                ELSE IF test = "offline" THEN "write_cache"
                ELSE "write_config"
    /\ UNCHANGED <<e2eIdleVars, e2eVars>>

-----------------------------------------------------------------------------
\* test_offline_functionality_e2e

\* sync_offline_data calls applied to the cache directory, the one of the
\* test included
MaxSyncs == 2

\* "offline_cache.json" and its content
OfflineCacheName == "offline_cache.json"
OfflineCacheData ==
    Json([user_profile |-> "Test User", recent_items |-> <<1, 2, 3, 4, 5>>,
          settings |-> "offline_mode"])

\* format!("offline_item_{}.json", i) for i in 0..5
OfflineItemNames ==
    <<"offline_item_0.json", "offline_item_1.json", "offline_item_2.json",
      "offline_item_3.json", "offline_item_4.json">>

\* format!("{{\"id\": {}, \"data\": \"offline_{}\"}}", i, i)
OfflineItemData(i) == Json([id |-> i, data |-> i])

\* the file of test_cache_operations, which the lifecycle test leaves in
\* the cache directory
TestCacheName == "test_cache.dat"
TestCacheData == Bytes(<<1, 2, 3, 4, 5>>)

\* file_name().to_string_lossy().starts_with("offline_item_"), on the
\* names that occur
StartsWithOfflineItem(n) ==
    \E i \in 1..Len(OfflineItemNames) : n = OfflineItemNames[i]

\* the cache directory before the test: empty, or as the lifecycle test
\* leaves it
OfflineCacheDirs == {<<>>, TestCacheName :> TestCacheData}

OfflineInit ==
    /\ test = "offline"
    /\ E2eStart
    /\ app_dir = <<>>
    /\ cache_dir \in OfflineCacheDirs

\* fs::write(&cache_file, cache_data).expect(..)
OfflineWriteCache ==
    /\ pc = "write_cache"
    /\ \E o \in FsOutcomes :
          IF o = "Ok"
            THEN /\ cache_dir' = With(cache_dir, OfflineCacheName,
                                      OfflineCacheData)
                 /\ pc' = "read_cache"
          ELSE /\ pc' = "panicked"
               /\ UNCHANGED cache_dir
    /\ UNCHANGED <<e2eIdleVars, app_dir, operations, synced, user_data>>

\* assert!(cache_file.exists()), fs::read_to_string(..).expect(..) and
\* assert!(!loaded_data.is_empty())
OfflineReadCache ==
    /\ pc = "read_cache"
    /\ \E o \in FsOutcomes :
          pc' = IF /\ OfflineCacheName \in DOMAIN cache_dir
                   /\ o = "Ok"
                  THEN "offline_ops" ELSE "panicked"
    /\ UNCHANGED <<e2eIdleVars, e2eVars>>

\* the directory after the first k writes of perform_offline_operations
RECURSIVE WriteOfflineItems(_, _)
WriteOfflineItems(dir, k) ==
    IF k = 0 THEN dir
    ELSE With(WriteOfflineItems(dir, k - 1), OfflineItemNames[k],
              OfflineItemData(k - 1))

\* perform_offline_operations(): five fs::write(..).expect(..), the first
\* k of which succeed; then assert!(operations > 0)
PerformOfflineOperations ==
    /\ pc = "offline_ops"
    /\ \E k \in 0..Len(OfflineItemNames) :
          /\ cache_dir' = WriteOfflineItems(cache_dir, k)
          /\ IF k = Len(OfflineItemNames)
               THEN /\ operations' = k
                    /\ pc' = IF k > 0 THEN "sync" ELSE "panicked"
             ELSE /\ pc' = "panicked"
                  /\ UNCHANGED operations
    /\ UNCHANGED <<e2eIdleVars, app_dir, synced, user_data>>

\* sync_offline_data(): seen are the entries fs::read_dir yields as Ok,
\* removed the ones whose fs::remove_file succeeds
sync_offline_data(dir, seen, removed) ==
    LET items == {n \in seen : StartsWithOfflineItem(n)}
        gone  == items \cap removed
    IN  [dir    |-> [n \in DOMAIN dir \ gone |-> dir[n]],
         result |-> Cardinality(items) > 0]

\* let synced = sync_offline_data(&cache_dir); assert!(synced): read_dir
\* is unwrapped, entries that are Err are skipped, and the Result of
\* remove_file is dropped
SyncOfflineData ==
    /\ pc = "sync"
    /\ \E rd \in FsOutcomes :
          IF rd = "Err"
            THEN pc' = "panicked" /\ UNCHANGED <<cache_dir, synced>>
          ELSE \E seen \in SUBSET DOMAIN cache_dir :
               \E removed \in SUBSET seen :
                  LET r == sync_offline_data(cache_dir, seen, removed)
                  IN  /\ cache_dir' = r.dir
                      /\ synced' = Append(synced, r.result)
                      /\ pc' = IF r.result THEN "done" ELSE "panicked"
    /\ UNCHANGED <<e2eIdleVars, app_dir, operations, user_data>>

\* sync_offline_data applied once more to the directory the test leaves,
\* with no new items
SyncAgain ==
    /\ test = "offline"
    /\ pc = "done"
    /\ Len(synced) < MaxSyncs
    /\ \E rd \in FsOutcomes :
          IF rd = "Err"
            THEN pc' = "panicked" /\ UNCHANGED <<cache_dir, synced>>
          ELSE \E seen \in SUBSET DOMAIN cache_dir :
               \E removed \in SUBSET seen :
                  LET r == sync_offline_data(cache_dir, seen, removed)
                  IN  /\ cache_dir' = r.dir
                      /\ synced' = Append(synced, r.result)
                      /\ pc' = pc
    /\ UNCHANGED <<e2eIdleVars, app_dir, operations, user_data>>

OfflineNext ==
    \/ E2eCreateDir
    \/ OfflineWriteCache
    \/ OfflineReadCache
    \/ PerformOfflineOperations
    \/ SyncOfflineData
    \/ SyncAgain

OfflineSpec == OfflineInit /\ [][OfflineNext]_vars

\* the offline_item_ files in the cache directory
OfflineItems == {n \in DOMAIN cache_dir : StartsWithOfflineItem(n)}

\* C38: perform_offline_operations leaves five offline_item_ files and
\* returns 5; the sync_offline_data that follows returns true and leaves no
\* offline_item_ file; a second sync_offline_data returns false.
C38_OfflineSyncLifecycle ==
    test = "offline" =>
        /\ (pc = "sync" /\ synced = <<>>) =>
              operations = 5 /\ Cardinality(OfflineItems) = 5
        /\ Len(synced) >= 1 => synced[1] /\ OfflineItems = {}
        /\ Len(synced) >= 2 => ~synced[2]

-----------------------------------------------------------------------------
\* test_mobile_app_lifecycle_e2e

ConfigName == "config.json"
ConfigData ==
    Json([app_version |-> "1.0.0", user_id |-> "test_user_123",
          settings |-> [notifications |-> TRUE, theme |-> "dark",
                        language |-> "en"]])
FirstLaunchName == ".first_launch"
UserDataName == "user_data.json"
VersionName == "version.txt"
MigrationName == "migration.log"

\* the HashMap load_or_create_user_data builds when there is no file:
\* the time of the call, a fresh uuid and the version
NewUserData ==
    [created_at |-> "now", user_id |-> "uuid", app_version |-> "1.0.0"]

\* what user_data.json can hold before the test: what an earlier run
\* saved, or text that is not JSON
UserDataContents ==
    { Json([created_at |-> "earlier", user_id |-> "uuid0",
            app_version |-> "1.0.0"]),
      Text("{\"created_at\": ") }

\* the app directory before the test
LifecycleAppDirs ==
    { a @@ b : a \in {<<>>, FirstLaunchName :> Text("1")},
               b \in {<<>>} \cup {UserDataName :> c : c \in UserDataContents} }

\* the cache directory before the test: empty, or with the file the
\* offline test leaves
LifecycleCacheDirs == {<<>>, OfflineCacheName :> OfflineCacheData}

LifecycleInit ==
    /\ test = "lifecycle"
    /\ E2eStart
    /\ app_dir \in LifecycleAppDirs
    /\ cache_dir \in LifecycleCacheDirs

\* fs::write(&config_path, config_data).expect(..) and the assert! that
\* the file exists
LifeWriteConfig ==
    /\ pc = "write_config"
    /\ \E o \in FsOutcomes :
          IF o = "Ok"
            THEN /\ app_dir' = With(app_dir, ConfigName, ConfigData)
                 /\ pc' = "first_launch"
          ELSE /\ pc' = "panicked"
               /\ UNCHANGED app_dir
    /\ UNCHANGED <<e2eIdleVars, cache_dir, operations, synced, user_data>>

\* if !first_launch_file.exists() { fs::write(..).expect(..) }
LifeFirstLaunch ==
    /\ pc = "first_launch"
    /\ \E o \in FsOutcomes :
          IF FirstLaunchName \in DOMAIN app_dir
            THEN pc' = "load_user_data" /\ UNCHANGED app_dir
          ELSE IF o = "Ok"
            THEN /\ app_dir' = With(app_dir, FirstLaunchName, Text("1"))
                 /\ pc' = "load_user_data"
          ELSE pc' = "panicked" /\ UNCHANGED app_dir
    /\ UNCHANGED <<e2eIdleVars, cache_dir, operations, synced, user_data>>

\* serde_json::from_str::<HashMap<String, String>>(&data)
\*     .unwrap_or_else(|_| HashMap::new())
ParseUserData(c) ==
    IF c.kind = "json" /\ \A k \in DOMAIN c.value : c.value[k] \in STRING
      THEN c.value
    ELSE <<>>

\* load_or_create_user_data(): rd is the Result of read_to_string, wr the
\* one of fs::write; the map returned and the directory left, or a panic
load_or_create_user_data(dir, rd, wr) ==
    IF UserDataName \in DOMAIN dir
      THEN [returned |-> TRUE,
            data     |-> ParseUserData(IF rd = "Ok" THEN dir[UserDataName]
                                       ELSE Text("")),
            dir      |-> dir]
    ELSE IF wr = "Ok"
      THEN [returned |-> TRUE,
            data     |-> NewUserData,
            dir      |-> With(dir, UserDataName, Json(NewUserData))]
    ELSE [returned |-> FALSE, data |-> NoUserData, dir |-> dir]

\* let user_data = load_or_create_user_data(&app_dir) and
\* assert!(user_data.contains_key("created_at"))
LoadUserData ==
    /\ pc = "load_user_data"
    /\ \E rd \in FsOutcomes, wr \in FsOutcomes :
          LET r == load_or_create_user_data(app_dir, rd, wr)
          IN  /\ app_dir' = r.dir
              /\ user_data' = r.data
              /\ pc' = IF r.returned /\ "created_at" \in DOMAIN r.data
                         THEN "cache_ops" ELSE "panicked"
    /\ UNCHANGED <<e2eIdleVars, cache_dir, operations, synced>>

\* test_cache_operations(): write and read test_cache.dat, both with
\* expect, then cleanup_old_cache, which removes the files older than an
\* hour that read_dir yields and drops every Err
CacheOperations ==
    /\ pc = "cache_ops"
    /\ \E wr \in FsOutcomes, rd \in FsOutcomes :
          IF wr = "Err"
            THEN pc' = "panicked" /\ UNCHANGED cache_dir
          ELSE LET written == With(cache_dir, TestCacheName, TestCacheData)
               IN  IF rd = "Err"
                     THEN pc' = "panicked" /\ cache_dir' = written
                   ELSE \E old \in SUBSET (DOMAIN cache_dir \ {TestCacheName}) :
                           /\ cache_dir' = [n \in DOMAIN written \ old |->
                                              written[n]]
                           /\ pc' = "background"
    /\ UNCHANGED <<e2eIdleVars, app_dir, operations, synced, user_data>>

\* test_background_operations(): a thread stores 42 under a Mutex, the
\* test joins it and reads 42
BackgroundOperations ==
    /\ pc = "background"
    /\ pc' = "update"
    /\ UNCHANGED <<e2eIdleVars, e2eVars>>

\* the app directory after the first k writes of test_app_update_scenario
UpdateWrites(dir, k) ==
    LET v1 == IF k >= 1 THEN With(dir, VersionName, Text("1.0.0")) ELSE dir
        v2 == IF k >= 2 THEN With(v1, VersionName, Text("1.1.0")) ELSE v1
    IN  IF k >= 3 THEN With(v2, MigrationName, Text("Migrated")) ELSE v2

\* test_app_update_scenario(): three fs::write(..).expect(..), the first k
\* of which succeed, then the version is read back and compared
AppUpdate ==
    /\ pc = "update"
    /\ \E k \in 0..3, rd \in FsOutcomes :
          /\ app_dir' = UpdateWrites(app_dir, k)
          /\ pc' = IF k = 3 /\ rd = "Ok" THEN "cleanup" ELSE "panicked"
    /\ UNCHANGED <<e2eIdleVars, cache_dir, operations, synced, user_data>>

\* the names cleanup_test_data goes through
test_files ==
    {ConfigName, FirstLaunchName, UserDataName, VersionName, MigrationName}

\* cleanup_test_data(): if file_path.exists() { fs::remove_file(..).ok() }
\* for each of the five names; removed are the deletions that succeed
CleanupTestData ==
    /\ pc = "cleanup"
    /\ \E removed \in SUBSET (test_files \cap DOMAIN app_dir) :
          app_dir' = [n \in DOMAIN app_dir \ removed |-> app_dir[n]]
    /\ pc' = "done"
    /\ UNCHANGED <<e2eIdleVars, cache_dir, operations, synced, user_data>>

LifecycleNext ==
    \/ E2eCreateDir
    \/ LifeWriteConfig
    \/ LifeFirstLaunch
    \/ LoadUserData
    \/ CacheOperations
    \/ BackgroundOperations
    \/ AppUpdate
    \/ CleanupTestData

LifecycleSpec == LifecycleInit /\ [][LifecycleNext]_vars

\* C39: the map load_or_create_user_data returns has the key created_at,
\* whatever user_data.json held before, and after cleanup_test_data none of
\* the five lifecycle files is in the app directory.
C39_UserDataAndCleanup ==
    test = "lifecycle" =>
        /\ user_data # NoUserData => "created_at" \in DOMAIN user_data
        /\ pc = "done" => test_files \cap DOMAIN app_dir = {}

=============================================================================
